---- MODULE Spec2Model ----
(***************************************************************************)
(* A model of the chunk construction pipeline of oxcart:                   *)
(*   src/dolphin_transformer.py  (element mapping, table validation,       *)
(*                                paragraph splitting, internal grouping,  *)
(*                                final validation)                        *)
(*   src/chunk_optimizer.py      (external grouping and re-splitting)      *)
(*                                                                         *)
(* Text.  A Python string is modelled as the sequence of its whitespace    *)
(* free words.  A word records its length in characters (len), the class   *)
(* of its last character (end: "stop" for one of . ! ?, "hyph" for -,      *)
(* "x" for anything else), the class of its letters (form), the number of  *)
(* whitespace characters that precede it (gap) and the input elements its  *)
(* characters come from (src); whitespace at the end of a string is a last *)
(* word of length 0.  Every string has exactly one such description up to  *)
(* the identity of its characters, and every operation of the code on      *)
(* strings that the pipeline uses (len, strip, re.sub of whitespace,       *)
(* re.split on sentence ends, join, concatenation) is determined by it.    *)
(*                                                                         *)
(* Numbers.  Box coordinates are fractions of the page; they are kept as   *)
(* integers in units of 1/Unit, the precision _normalize_box rounds to.    *)
(***************************************************************************)
EXTENDS Integers, Sequences, FiniteSets, TLC

(***************************************************************************)
(* Bounds of the model.                                                    *)
(***************************************************************************)
MaxWords == 4          \* words of a text given to _split_long_paragraph
MaxChars == 5          \* largest max_chars given to _split_long_paragraph
MaxOverlap == 2        \* largest overlap_sents given to _split_long_paragraph
MaxGroupChunks == 3    \* chunks of a list given to _group_small_chunks
MaxSegments == 2       \* repeated pieces an HTML string is made of
MaxElements == 3       \* elements of a document given to the transform

VARIABLES
    (* _split_long_paragraph, one call *)
    sp_pc,             \* "call", "loop", "returned", or "idle"
    text,              \* argument text
    max_chars,         \* argument max_chars
    overlap_sents,     \* argument overlap_sents
    txt,               \* local txt (whitespace-normalized text)
    sents,             \* local sents
    sp_i,              \* local i (0-based, as in the code)
    sp_chunks,         \* local chunks: the parts appended so far
    sp_runs            \* for each part, the values of i and j it was built from

split_vars == <<sp_pc, text, max_chars, overlap_sents, txt, sents, sp_i, sp_chunks, sp_runs>>

VARIABLES
    (* _group_small_chunks, called on a chunk list and then on its own output *)
    g_pc,              \* "call", "loop", "returned", or "idle"
    g_run,             \* 1 for the first call, 2 for the call on its output
    chunks,            \* argument chunks
    optimized_chunks,  \* local optimized_chunks
    g_i,               \* local i (0-based, as in the code)
    g_first            \* what the first call returned

group_vars == <<g_pc, g_run, chunks, optimized_chunks, g_i, g_first>>

VARIABLES
    (* _validate_html_table, one call *)
    v_pc,              \* "call", "returned", or "idle"
    html,              \* argument html
    v_result           \* the value returned

table_vars == <<v_pc, html, v_result>>

VARIABLES
    (* transform_dolphin_to_oxcart_preserving_labels, one call *)
    pc,                        \* where the call stands, or "idle"
    recognition_results,       \* argument: [shape, pages]
    fuse_figure_and_caption,   \* argument
    optimize_for_rag,          \* argument
    table_row_block_size,      \* argument; 0 stands for None
    pages_in,                  \* local pages_in
    page_no,                   \* how many pages of pages_in have been taken
    pno,                       \* local pno
    elements,                  \* local elements (sorted by reading_order)
    dims,                      \* locals w and h; 0 stands for None
    idx,                       \* index of the element at hand (0-based)
    skip_next,                 \* local skip_next
    oxcart_chunks,             \* oxcart["chunks"]
    extraction_metadata,       \* oxcart["extraction_metadata"]
    raised                     \* the exception that left the call, or "none"

transform_vars == <<pc, recognition_results, fuse_figure_and_caption, optimize_for_rag,
                    table_row_block_size, pages_in, page_no, pno, elements, dims, idx, skip_next,
                    oxcart_chunks, extraction_metadata, raised>>

VARIABLES
    (* _normalize_box or normalize_bbox_coordinates, one call *)
    n_pc,              \* "call", "returned", "raised", or "idle"
    n_fn,              \* the function that is called
    n_bbox,            \* argument bbox; <<>> stands for None and for []
    n_w,               \* argument w or page_width; 0 stands for None and for 0
    n_h,               \* argument h or page_height; 0 stands for None and for 0
    n_result           \* the value returned; NoBox stands for None

normalize_vars == <<n_pc, n_fn, n_bbox, n_w, n_h, n_result>>

VARIABLES
    (* group_chunks_contextually, one call *)
    cx_pc,             \* "call", "loop", "returned", or "idle"
    cx_chunks,         \* argument chunks
    cx_sorted,         \* local sorted_chunks
    cx_grouped,        \* local grouped_chunks
    cx_i               \* local i (0-based, as in the code)

context_vars == <<cx_pc, cx_chunks, cx_sorted, cx_grouped, cx_i>>

VARIABLES
    (* main of analyze_json_comparison.py, one run on two loaded files *)
    c_pc,                \* "loaded", ..., "scored", "raised", or "idle"
    dolphin_data,        \* local dolphin_data
    ideal_data,          \* local ideal_data
    dolphin_structure,   \* local dolphin_structure
    ideal_structure,     \* local ideal_structure
    ideal_chars,         \* local ideal_chars: chunks_with_bbox of bbox_analysis
    comparison,          \* local comparison: ratio and field_coverage
    similarity_factors   \* local similarity_factors, in hundredths

compare_vars == <<c_pc, dolphin_data, ideal_data, dolphin_structure, ideal_structure,
                  ideal_chars, comparison, similarity_factors>>

vars == <<split_vars, group_vars, table_vars, transform_vars, normalize_vars,
         context_vars, compare_vars>>

(***************************************************************************)
(* Generic helpers.                                                        *)
(***************************************************************************)
Max(a, b) == IF a >= b THEN a ELSE b
Min(a, b) == IF a <= b THEN a ELSE b

\* the element of a set of one element; in {e(x) : x \in {v}} the value v
\* is computed once, however often e refers to x
The(S) == CHOOSE x \in S : TRUE

\* sum(counts)
RECURSIVE SumOf(_)
SumOf(counts) == IF counts = <<>> THEN 0 ELSE counts[1] + SumOf(Tail(counts))

SeqsUpTo(S, n) == UNION {[1..k -> S] : k \in 0..n}

(***************************************************************************)
(* Strings.                                                                *)
(***************************************************************************)
Word(src, len, end, form, gap) ==
    [src |-> src, len |-> len, end |-> end, form |-> form, gap |-> gap]

RECURSIVE SumChars(_, _)
SumChars(t, k) == IF k = 0 THEN 0 ELSE t[k].gap + t[k].len + SumChars(t, k - 1)

\* len(t)
TextLen(t) == SumChars(t, Len(t))

\* whitespace at the end of a text is a last word of length 0 with that gap
Trailing(gap) == IF gap = 0 THEN <<>> ELSE <<Word({}, 0, "x", "none", gap)>>

\* t.strip()
strip(t) ==
    LET u == IF t # <<>> /\ t[Len(t)].len = 0 THEN SubSeq(t, 1, Len(t) - 1) ELSE t
    IN  IF u = <<>> THEN u ELSE [u EXCEPT ![1].gap = 0]

\* re.sub(r"\s+", " ", t.strip())
NormalizeWhitespace(t) ==
    [k \in 1..Len(t) |-> [t[k] EXCEPT !.gap = IF k = 1 THEN 0 ELSE 1]]

\* index of the word that ends the first sentence of a non-empty text t:
\* the first word that ends in . ! ? and is followed by whitespace
FirstSentenceEnd(t) ==
    IF \E k \in 1..(Len(t) - 1) : t[k].end = "stop"
    THEN CHOOSE k \in 1..(Len(t) - 1) :
            /\ t[k].end = "stop"
            /\ \A m \in 1..(k - 1) : t[m].end # "stop"
    ELSE Len(t)

\* re.split(r'(?<=[\.!?])\s+', t) for a non-empty t: the whitespace that
\* follows a sentence end is consumed by the split
RECURSIVE SplitSentences(_)
SplitSentences(t) ==
    IF t = <<>> THEN <<>>
    ELSE LET e == FirstSentenceEnd(t)
         IN  <<strip(SubSeq(t, 1, e))>> \o SplitSentences(SubSeq(t, e + 1, Len(t)))

\* re.split(r'(?<=[.!?])\s+', t) for a non-empty t as it is: only the
\* whitespace between two sentences goes
RECURSIVE RawSentences(_)
RawSentences(t) ==
    LET e == FirstSentenceEnd(t)
        rest == SubSeq(t, e + 1, Len(t))
    IN  <<SubSeq(t, 1, e)>>
        \o (IF rest = <<>> THEN <<>>
            ELSE IF rest[1].len = 0 THEN << <<>> >>
            ELSE RawSentences([rest EXCEPT ![1].gap = 0]))

\* " ".join(ss).strip() for a sequence ss of texts
RECURSIVE JoinSpace(_)
JoinSpace(ss) ==
    IF ss = <<>> THEN <<>>
    ELSE IF Len(ss) = 1 THEN strip(ss[1])
    ELSE LET rest == JoinSpace(Tail(ss))
         IN  strip(ss[1] \o (IF rest = <<>> THEN <<>> ELSE [rest EXCEPT ![1].gap = 1]))

\* (a + ' ' + b).strip() for texts a and b
ConcatSpace(a, b) ==
    strip(a \o (IF b = <<>> THEN <<>> ELSE [b EXCEPT ![1].gap = b[1].gap + 1]))

(***************************************************************************)
(* _split_long_paragraph (src/dolphin_transformer.py 479-512).             *)
(* Indexes i and j are 0-based as in the code; sents[j] of the code is     *)
(* s[j + 1] here.                                                          *)
(***************************************************************************)
\* what one sentence adds to total: len(sents[j]) + 1
SentCostNoSeparator(s) == TextLen(s)
SentCost(s) == TextLen(s) + 1

\* the inner while loop: the value of j when it ends
RECURSIVE Pack(_, _, _, _)
Pack(s, j, total, mc) ==
    IF j < Len(s) /\ total + SentCost(s[j + 1]) <= mc
    THEN Pack(s, j + 1, total + SentCost(s[j + 1]), mc)
    ELSE j

\* i = max(i + 1, j - overlap_sents)
NextStartSkipping(i, j, ov) == j + 1
NextStart(i, j, ov) == Max(i + 1, j - ov)

\* one iteration of the outer while loop started at i
SplitStep(s, i, mc, ov) ==
    LET j0 == Pack(s, i, 0, mc)
        forced == (j0 = i)
        j == IF forced THEN i + 1 ELSE j0
    IN  [part |-> JoinSpace(SubSeq(s, i + 1, j)),
         i |-> i, j |-> j, forced |-> forced,
         next |-> NextStart(i, j, ov)]

RECURSIVE SplitLoop(_, _, _, _)
SplitLoop(s, i, mc, ov) ==
    IF i < Len(s)
    THEN LET st == SplitStep(s, i, mc, ov)
         IN  <<st.part>> \o SplitLoop(s, st.next, mc, ov)
    ELSE <<>>

_split_long_paragraph(t, mc, ov) ==
    LET n == NormalizeWhitespace(strip(t))
    IN  IF TextLen(n) <= mc
        THEN (IF n # <<>> THEN <<n>> ELSE <<>>)
        ELSE SplitLoop(SplitSentences(n), 0, mc, ov)

(***************************************************************************)
(* One call of _split_long_paragraph, statement by statement.              *)
(***************************************************************************)
WordLens == {1, 3}
SplitWords == {Word({}, l, e, "lower", 1) : l \in WordLens, e \in {"stop", "x"}}

\* the raw text: words separated by one blank, or by two with a leading blank
Widen(t) == [k \in 1..Len(t) |-> [t[k] EXCEPT !.gap = IF k = 1 THEN 1 ELSE 2]]
\* word k of an input text is tagged k, so that every word is told apart
Tag(t) == [k \in 1..Len(t) |-> [t[k] EXCEPT !.src = {k}]]
SplitTexts == LET base == {Tag(t) : t \in SeqsUpTo(SplitWords, MaxWords)}
              IN  {strip(t) : t \in base} \cup {Widen(t) : t \in base}

\* lines 491-493: the text fits, it is returned whole (or nothing if empty)
SplitShort ==
    /\ sp_pc = "call"
    /\ LET n == NormalizeWhitespace(strip(text))
       IN  /\ TextLen(n) <= max_chars
           /\ txt' = n
           /\ sp_chunks' = (IF n # <<>> THEN <<n>> ELSE <<>>)
           /\ sp_runs' = (IF n # <<>> THEN <<[i |-> 0, j |-> Len(SplitSentences(n))]>> ELSE <<>>)
           /\ sents' = SplitSentences(n)
    /\ sp_pc' = "returned"
    /\ UNCHANGED <<text, max_chars, overlap_sents, sp_i>>
    /\ UNCHANGED <<group_vars, table_vars, transform_vars, normalize_vars, context_vars, compare_vars>>

\* lines 491-496: the text does not fit, it is cut into sentences
SplitBegin ==
    /\ sp_pc = "call"
    /\ LET n == NormalizeWhitespace(strip(text))
       IN  /\ TextLen(n) > max_chars
           /\ txt' = n
           /\ sents' = SplitSentences(n)
    /\ sp_i' = 0
    /\ sp_chunks' = <<>>
    /\ sp_runs' = <<>>
    /\ sp_pc' = "loop"
    /\ UNCHANGED <<text, max_chars, overlap_sents>>
    /\ UNCHANGED <<group_vars, table_vars, transform_vars, normalize_vars, context_vars, compare_vars>>

\* lines 498-510, the inner loop took at least one sentence
SplitPack ==
    /\ sp_pc = "loop"
    /\ sp_i < Len(sents)
    /\ LET st == SplitStep(sents, sp_i, max_chars, overlap_sents)
       IN  /\ ~st.forced
           /\ sp_chunks' = Append(sp_chunks, st.part)
           /\ sp_runs' = Append(sp_runs, [i |-> st.i, j |-> st.j])
           /\ sp_i' = st.next
    /\ UNCHANGED <<sp_pc, text, max_chars, overlap_sents, txt, sents>>
    /\ UNCHANGED <<group_vars, table_vars, transform_vars, normalize_vars, context_vars, compare_vars>>

\* lines 498-510, the inner loop took nothing: sents[i] is forced (505-507)
SplitForce ==
    /\ sp_pc = "loop"
    /\ sp_i < Len(sents)
    /\ LET st == SplitStep(sents, sp_i, max_chars, overlap_sents)
       IN  /\ st.forced
           /\ sp_chunks' = Append(sp_chunks, st.part)
           /\ sp_runs' = Append(sp_runs, [i |-> st.i, j |-> st.j])
           /\ sp_i' = st.next
    /\ UNCHANGED <<sp_pc, text, max_chars, overlap_sents, txt, sents>>
    /\ UNCHANGED <<group_vars, table_vars, transform_vars, normalize_vars, context_vars, compare_vars>>

\* line 512
SplitReturn ==
    /\ sp_pc = "loop"
    /\ sp_i >= Len(sents)
    /\ sp_pc' = "returned"
    /\ UNCHANGED <<text, max_chars, overlap_sents, txt, sents, sp_i, sp_chunks, sp_runs>>
    /\ UNCHANGED <<group_vars, table_vars, transform_vars, normalize_vars, context_vars, compare_vars>>

SplitNext == SplitShort \/ SplitBegin \/ SplitPack \/ SplitForce \/ SplitReturn


(***************************************************************************)
(* Chunks.  A chunk is the dict the mapper builds (dolphin_transformer.py  *)
(* 695-705, 755-767, 796-809, 821-827, 855-866) with grounding[0] and      *)
(* metadata flattened into fields.  chunk_id is the tuple the id string    *)
(* is formatted from; box is NoBox for None; combined_chunks is 0 while    *)
(* the key is absent.  Chunks can hold one and the same box dict, which    *)
(* shows when the dict is changed in place (555-562): box_obj names the    *)
(* dict, by the element and part it was made for and the number of         *)
(* envelopes taken since (gen).                                            *)
(***************************************************************************)
Unit == 1000000

NoBox == [null |-> TRUE, l |-> 0, t |-> 0, r |-> 0, b |-> 0]
Box(l, t, r, b) == [null |-> FALSE, l |-> l, t |-> t, r |-> r, b |-> b]

\* f"{doc_id}:{pno:03d}:{ro}-{ro_end}:{part}", then f"{base_id}_split_{n}"
ChunkId(p, ro, ro_end, part) ==
    [pno |-> p, ro |-> ro, ro_end |-> ro_end, part |-> part, rows |-> -1, split |-> -1]

\* f"{doc_id}:{pno:03d}:{ro}-{ro}:rows{start}"
RowsChunkId(p, ro, start) ==
    [pno |-> p, ro |-> ro, ro_end |-> ro, part |-> -1, rows |-> start, split |-> -1]

NoParent == [pno |-> -1, ro |-> -1, ro_end |-> -1, part |-> -1, rows |-> -1, split |-> -1]

Chunk(id, type, t, page, box, labels, ro, ro_end) ==
    [chunk_id |-> id, chunk_type |-> type, text |-> t,
     page |-> page, box |-> box,
     labels |-> labels, reading_order_range |-> <<ro, ro_end>>,
     box_obj |-> [el |-> 0, part |-> -1, gen |-> 0],
     combined_chunks |-> 0,
     part_index |-> -1,
     parent_table_chunk_id |-> NoParent]

\* the chunk holds the box dict made for part `part` of element `el`
WithBoxOf(chunk, el, part) ==
    [chunk EXCEPT !.box_obj = [el |-> el, part |-> part, gen |-> 0]]

(***************************************************************************)
(* Coordinates are Python floats.  A finite coordinate is an integer       *)
(* number of 1/Unit; NaN stands for the float nan, which a bbox entry can  *)
(* be (json.loads reads the literal NaN) and which division and round      *)
(* hand on (302-305).  Every comparison with nan is false, and min and max *)
(* return their first argument unless the second compares below or above   *)
(* it.                                                                     *)
(***************************************************************************)
NaN == -999999999

IsNaN(x) == x = NaN

FloatLt(a, b) == ~IsNaN(a) /\ ~IsNaN(b) /\ a < b
FloatGt(a, b) == FloatLt(b, a)
FloatGe(a, b) == ~IsNaN(a) /\ ~IsNaN(b) /\ a >= b

\* min(a, b) and max(a, b) of Python
FloatMin(a, b) == IF FloatLt(b, a) THEN b ELSE a
FloatMax(a, b) == IF FloatGt(b, a) THEN b ELSE a

FloatAdd(a, b) == IF IsNaN(a) \/ IsNaN(b) THEN NaN ELSE a + b
FloatSub(a, b) == IF IsNaN(a) \/ IsNaN(b) THEN NaN ELSE a - b

\* a * n / d for a float a and integers n >= 0, d > 0, rounded down to a
\* whole number of 1/Unit; the product is taken in two parts to stay within
\* the integers of TLC
FloatScale(a, n, d) ==
    IF IsNaN(a) THEN NaN ELSE (a \div d) * n + ((a % d) * n) \div d

\* round(x / w, 6) for a pixel coordinate x and a page dimension w # 0
RoundDiv(x, w) ==
    IF IsNaN(x) THEN NaN
    ELSE LET n == 2 * x * Unit + w
             d == 2 * w
         IN  IF d > 0 THEN n \div d ELSE (0 - n) \div (0 - d)

\* min/max envelope of two boxes (362-367; chunk_optimizer.py 231-236)
EnvelopeKeepsFirst(b1, b2) == b1
Envelope(b1, b2) ==
    Box(FloatMin(b1.l, b2.l), FloatMin(b1.t, b2.t),
        FloatMax(b1.r, b2.r), FloatMax(b1.b, b2.b))

(***************************************************************************)
(* _can_merge_chunks (src/dolphin_transformer.py 397-433).                 *)
(***************************************************************************)
MaxReadingOrderGap == 5

\* what is asked of two chunks but that they be of one page
CanMergeAcrossPages(chunk1, chunk2) ==
    /\ chunk1.chunk_type = chunk2.chunk_type
    /\ chunk1.chunk_type \notin {"table", "figure", "caption", "table_row"}
    /\ chunk2.reading_order_range[1] - chunk1.reading_order_range[2] <= MaxReadingOrderGap

_can_merge_chunks(chunk1, chunk2) ==
    /\ chunk1.chunk_type = chunk2.chunk_type
    /\ chunk1.chunk_type \notin {"table", "figure", "caption", "table_row"}
    /\ chunk1.page = chunk2.page
    /\ chunk2.reading_order_range[1] - chunk1.reading_order_range[2] <= MaxReadingOrderGap

(***************************************************************************)
(* _group_small_chunks (src/dolphin_transformer.py 309-394).               *)
(* i and j are 0-based as in the code; chunks[j] of the code is cs[j + 1]. *)
(***************************************************************************)
\* the inner while loop (345-376): st holds j, combined_text, combined_bbox,
\* the number of envelopes taken and reading_order_end; current_chunk is the copy of chunks[i], whose
\* metadata the loop does not touch
RECURSIVE Absorb(_, _, _, _, _)
Absorb(cs, current_chunk, st, min_chunk_size, max_combined_size) ==
    IF /\ st.j < Len(cs)
       /\ TextLen(st.combined_text) < max_combined_size
       /\ TextLen(cs[st.j + 1].text) < min_chunk_size * 2
    THEN LET next_chunk == cs[st.j + 1]
             next_text == next_chunk.text
         IN  IF /\ _can_merge_chunks(current_chunk, next_chunk)
                /\ TextLen(st.combined_text) + 1 + TextLen(next_text) <= max_combined_size
             THEN Absorb(cs, current_chunk,
                         [j |-> st.j + 1,
                          combined_text |-> ConcatSpace(st.combined_text, next_text),
                          combined_bbox |->
                              IF ~st.combined_bbox.null /\ ~next_chunk.box.null
                              THEN Envelope(st.combined_bbox, next_chunk.box)
                              ELSE st.combined_bbox,
                          envelopes |->
                              IF ~st.combined_bbox.null /\ ~next_chunk.box.null
                              THEN st.envelopes + 1 ELSE st.envelopes,
                          reading_order_end |-> next_chunk.reading_order_range[2]],
                         min_chunk_size, max_combined_size)
             ELSE st
    ELSE st

\* the combined chunk, with the loop going on from the chunk after chunk i
\* whatever was absorbed
CombineAndStepOne(cs, i, min_chunk_size, max_combined_size) ==
    LET current_chunk == cs[i + 1]
        reading_order_start == current_chunk.reading_order_range[1]
        st == Absorb(cs, current_chunk,
                     [j |-> i + 1,
                      combined_text |-> current_chunk.text,
                      combined_bbox |-> current_chunk.box,
                      envelopes |-> 0,
                      reading_order_end |-> reading_order_start],
                     min_chunk_size, max_combined_size)
    IN  [chunk |-> [current_chunk EXCEPT
                        !.text = st.combined_text,
                        !.box = st.combined_bbox,
                        !.box_obj.gen = current_chunk.box_obj.gen + st.envelopes,
                        !.reading_order_range = <<reading_order_start, st.reading_order_end>>,
                        !.combined_chunks = st.j - i],
         j |-> i + 1]

\* one iteration of the outer while loop (327-392) for a chunk shorter than
\* min_chunk_size: the combined chunk and the index the loop goes on from
CombineFrom(cs, i, min_chunk_size, max_combined_size) ==
    LET current_chunk == cs[i + 1]
        reading_order_start == current_chunk.reading_order_range[1]
        st == Absorb(cs, current_chunk,
                     [j |-> i + 1,
                      combined_text |-> current_chunk.text,
                      combined_bbox |-> current_chunk.box,
                      envelopes |-> 0,
                      reading_order_end |-> reading_order_start],
                     min_chunk_size, max_combined_size)
    IN  [chunk |-> [current_chunk EXCEPT
                        !.text = st.combined_text,
                        !.box = st.combined_bbox,
                        !.box_obj.gen = current_chunk.box_obj.gen + st.envelopes,
                        !.reading_order_range = <<reading_order_start, st.reading_order_end>>,
                        !.combined_chunks = st.j - i],
         j |-> st.j]

RECURSIVE GroupLoop(_, _, _, _)
GroupLoop(cs, i, min_chunk_size, max_combined_size) ==
    IF i < Len(cs)
    THEN IF TextLen(cs[i + 1].text) >= min_chunk_size
         THEN <<cs[i + 1]>> \o GroupLoop(cs, i + 1, min_chunk_size, max_combined_size)
         ELSE LET c == CombineFrom(cs, i, min_chunk_size, max_combined_size)
              IN  <<c.chunk>> \o GroupLoop(cs, c.j, min_chunk_size, max_combined_size)
    ELSE <<>>

_group_small_chunks(cs, min_chunk_size, max_combined_size) ==
    GroupLoop(cs, 0, min_chunk_size, max_combined_size)

\* the arguments of the call in the transform (874)
min_chunk_size == 100
max_combined_size == 1200

(***************************************************************************)
(* _group_small_chunks called on a chunk list as the mapper builds them,   *)
(* and then on its own output, statement by statement.                     *)
(***************************************************************************)
GroupTextLens == {10, 150, 250}
GroupTypes == {"text", "figure"}
GroupGaps == {1, 5}

GroupBox(k) == Box(k * 100000, k * 100000, k * 100000 + 50000, k * 100000 + 50000)

\* chunk k of the list: reading orders grow by the chosen gaps, the chunks
\* after the page break are on page 2
RECURSIVE ReadingOrderAt(_, _)
ReadingOrderAt(shape, k) == IF k = 0 THEN 0 ELSE ReadingOrderAt(shape, k - 1) + shape[k].gap

GroupChunkAt(shape, k, break, boxed) ==
    LET ro == ReadingOrderAt(shape, k)
        p == IF k <= break THEN 1 ELSE 2
    IN  WithBoxOf(Chunk(ChunkId(p, ro, ro, 0), shape[k].type,
                        <<Word({k}, shape[k].len, "x", "lower", 0)>>,
                        p, IF boxed THEN GroupBox(k) ELSE NoBox,
                        <<IF shape[k].type = "figure" THEN "fig" ELSE "para">>, ro, ro),
                  k, -1)

GroupShapes ==
    SeqsUpTo([type : GroupTypes, len : GroupTextLens, gap : GroupGaps], MaxGroupChunks)

\* 321-322: an empty list is returned as it is
GroupEmpty ==
    /\ g_pc = "call"
    /\ chunks = <<>>
    /\ optimized_chunks' = chunks
    /\ g_first' = (IF g_run = 1 THEN chunks ELSE g_first)
    /\ g_pc' = "returned"
    /\ UNCHANGED <<g_run, chunks, g_i>>
    /\ UNCHANGED <<split_vars, table_vars, transform_vars, normalize_vars, context_vars, compare_vars>>

\* 324-325
GroupBegin ==
    /\ g_pc = "call"
    /\ chunks # <<>>
    /\ optimized_chunks' = <<>>
    /\ g_i' = 0
    /\ g_pc' = "loop"
    /\ UNCHANGED <<g_run, chunks, g_first>>
    /\ UNCHANGED <<split_vars, table_vars, transform_vars, normalize_vars, context_vars, compare_vars>>

\* 328-335: a chunk that is large enough is kept as it is
GroupKeep ==
    /\ g_pc = "loop"
    /\ g_i < Len(chunks)
    /\ TextLen(chunks[g_i + 1].text) >= min_chunk_size
    /\ optimized_chunks' = Append(optimized_chunks, chunks[g_i + 1])
    /\ g_i' = g_i + 1
    /\ UNCHANGED <<g_pc, g_run, chunks, g_first>>
    /\ UNCHANGED <<split_vars, table_vars, transform_vars, normalize_vars, context_vars, compare_vars>>

\* 337-392: a small chunk absorbs the chunks that follow it
GroupCombine ==
    /\ g_pc = "loop"
    /\ g_i < Len(chunks)
    /\ TextLen(chunks[g_i + 1].text) < min_chunk_size
    /\ LET c == CombineFrom(chunks, g_i, min_chunk_size, max_combined_size)
       IN  /\ optimized_chunks' = Append(optimized_chunks, c.chunk)
           /\ g_i' = c.j
    /\ UNCHANGED <<g_pc, g_run, chunks, g_first>>
    /\ UNCHANGED <<split_vars, table_vars, transform_vars, normalize_vars, context_vars, compare_vars>>

\* 394
GroupReturn ==
    /\ g_pc = "loop"
    /\ g_i >= Len(chunks)
    /\ g_first' = (IF g_run = 1 THEN optimized_chunks ELSE g_first)
    /\ g_pc' = "returned"
    /\ UNCHANGED <<g_run, chunks, optimized_chunks, g_i>>
    /\ UNCHANGED <<split_vars, table_vars, transform_vars, normalize_vars, context_vars, compare_vars>>

\* the pass is run again on what it returned
GroupAgain ==
    /\ g_pc = "returned"
    /\ g_run = 1
    /\ g_run' = 2
    /\ chunks' = optimized_chunks
    /\ optimized_chunks' = <<>>
    /\ g_i' = 0
    /\ g_pc' = "call"
    /\ UNCHANGED g_first
    /\ UNCHANGED <<split_vars, table_vars, transform_vars, normalize_vars, context_vars, compare_vars>>

GroupNext ==
    GroupEmpty \/ GroupBegin \/ GroupKeep \/ GroupCombine \/ GroupReturn \/ GroupAgain

(***************************************************************************)
(* HTML.  An HTML string is modelled as the sequence of its tokens: the    *)
(* tags <table>, </table>, <tr>, </tr>, <td>, </td>, <b> (any other tag)   *)
(* and the texts between them.  To reach the row and cell limits of the    *)
(* code a string is written as a sequence of segments, each a token        *)
(* pattern and the number of times it is repeated.                         *)
(***************************************************************************)
TokenLen(tok) ==
    CASE tok = "<table>" -> 7
      [] tok = "</table>" -> 8
      [] tok = "<tr>" -> 4
      [] tok = "</tr>" -> 5
      [] tok = "<td>" -> 4
      [] tok = "</td>" -> 5
      [] tok = "<b>" -> 3
      [] tok = "nan" -> 3
      [] tok \in {"a10", "b10"} -> 10          \* texts of 10 characters
      [] tok \in {"a30", "b30"} -> 30
      [] tok \in {"a30000", "b30000"} -> 30000
      [] OTHER -> 1

IsTag(tok) == tok \in {"<table>", "</table>", "<tr>", "</tr>", "<td>", "</td>", "<b>"}

RECURSIVE PatternLen(_)
PatternLen(pat) == IF pat = <<>> THEN 0 ELSE TokenLen(Head(pat)) + PatternLen(Tail(pat))

RECURSIVE HtmlLen(_)
HtmlLen(h) == IF h = <<>> THEN 0 ELSE Head(h).n * PatternLen(Head(h).pat) + HtmlLen(Tail(h))

\* re.search(r'<table[^>]*>', html, re.I)
HasTableTag(h) ==
    \E k \in 1..Len(h) : h[k].n > 0 /\ \E m \in 1..Len(h[k].pat) : h[k].pat[m] = "<table>"

(***************************************************************************)
(* re.findall over the token stream.  Both patterns of the code,           *)
(*     <tr[^>]*>.*?</tr>   and   <t[dh][^>]*>(.*?)</t[dh]>,                *)
(* are an opening tag, a shortest run of anything, and a closing tag, and  *)
(* findall returns the leftmost matches that do not overlap: a match       *)
(* starts at the first opening tag after the previous match and ends at    *)
(* the first closing tag after it; opening tags in between are part of     *)
(* the run.  The scan keeps, for the rows, whether a match is open and the *)
(* number of matches; for the cells, whether a match is open, the texts    *)
(* captured so far with the tags left out (re.sub(r'<.*?>', '', cell)),    *)
(* whether anything was captured at all (cell.strip() is non-empty), the   *)
(* number of matches and how often each cleaned content occurred.          *)
(***************************************************************************)
ScanStart ==
    [in_row |-> FALSE, rows |-> 0,
     in_cell |-> FALSE, cell |-> <<>>, captured |-> FALSE, cells |-> 0,
     cleaned_contents |-> <<>>]

\* cleaned_contents as a list of <<content, count>> pairs: count one more c
RECURSIVE CountIn(_, _)
CountIn(counts, c) ==
    IF counts = <<>> THEN <<<<c, 1>>>>
    ELSE IF Head(counts)[1] = c THEN <<<<c, Head(counts)[2] + 1>>>> \o Tail(counts)
    ELSE <<Head(counts)>> \o CountIn(Tail(counts), c)

ScanRowToken(st, tok) ==
    IF tok = "<tr>" /\ ~st.in_row THEN [st EXCEPT !.in_row = TRUE]
    ELSE IF tok = "</tr>" /\ st.in_row THEN [st EXCEPT !.in_row = FALSE, !.rows = @ + 1]
    ELSE st

ScanCellToken(st, tok) ==
    IF ~st.in_cell
    THEN IF tok = "<td>"
         THEN [st EXCEPT !.in_cell = TRUE, !.cell = <<>>, !.captured = FALSE]
         ELSE st
    ELSE IF tok = "</td>"
         THEN [st EXCEPT !.in_cell = FALSE, !.cells = @ + 1,
                         !.cell = <<>>, !.captured = FALSE,
                         !.cleaned_contents =
                             IF st.captured THEN CountIn(@, st.cell) ELSE @]
         ELSE [st EXCEPT !.captured = TRUE,
                         !.cell = IF IsTag(tok) THEN @ ELSE Append(@, tok)]

ScanToken(st, tok) == ScanCellToken(ScanRowToken(st, tok), tok)

\* (the test of next.rows, which is never negative, only makes TLC
\* compute next before it goes on)
RECURSIVE ScanPattern(_, _, _)
ScanPattern(st, pat, k) ==
    IF k > Len(pat) THEN st
    ELSE LET next == ScanToken(st, pat[k])
         IN  IF next.rows >= 0 THEN ScanPattern(next, pat, k + 1) ELSE next

\* The scan of n repetitions of a pattern.  What the scan of one repetition
\* does depends on the counters not at all, only on the open matches and the
\* text captured so far; once a repetition ends as it began in these, every
\* further repetition adds to the counters what that one added.
ScanControl(st) == <<st.in_row, st.in_cell, st.cell, st.captured>>

RECURSIVE CountOf(_, _)
CountOf(counts, c) ==
    IF counts = <<>> THEN 0
    ELSE IF Head(counts)[1] = c THEN Head(counts)[2]
    ELSE CountOf(Tail(counts), c)

ScanExtrapolate(s1, s2, k) ==
    [s2 EXCEPT
        !.rows = s2.rows + k * (s2.rows - s1.rows),
        !.cells = s2.cells + k * (s2.cells - s1.cells),
        !.cleaned_contents =
            [m \in 1..Len(s2.cleaned_contents) |->
                LET c == s2.cleaned_contents[m][1]
                    now == s2.cleaned_contents[m][2]
                IN  <<c, now + k * (now - CountOf(s1.cleaned_contents, c))>>]]

RECURSIVE ScanRepeated(_, _, _)
ScanRepeated(st, pat, n) ==
    IF n = 0 THEN st
    ELSE LET s1 == ScanPattern(st, pat, 1)
         IN  IF n = 1 THEN s1
             ELSE LET s2 == ScanPattern(s1, pat, 1)
                  IN  IF ScanControl(s2) = ScanControl(s1)
                      THEN ScanExtrapolate(s1, s2, n - 2)
                      ELSE ScanRepeated(s2, pat, n - 2)

RECURSIVE ScanHtml(_, _)
ScanHtml(st, h) ==
    IF h = <<>> THEN st ELSE ScanHtml(ScanRepeated(st, Head(h).pat, Head(h).n), Tail(h))

RECURSIVE TotalCount(_)
TotalCount(counts) == IF counts = <<>> THEN 0 ELSE Head(counts)[2] + TotalCount(Tail(counts))

RECURSIVE MostCommonCount(_)
MostCommonCount(counts) ==
    IF counts = <<>> THEN 0 ELSE Max(Head(counts)[2], MostCommonCount(Tail(counts)))

RECURSIVE EmptyCount(_)
EmptyCount(counts) ==
    IF counts = <<>> THEN 0
    ELSE (IF Head(counts)[1] \in {<<>>, <<"nan">>} THEN Head(counts)[2] ELSE 0)
         + EmptyCount(Tail(counts))

(***************************************************************************)
(* _validate_html_table (src/dolphin_transformer.py 15-56): the return     *)
(* statement that is reached.                                              *)
(***************************************************************************)
MaxTableRows == 200
MinTableRows == 2
MaxTableCells == 1000
MinHtmlLen == 20

ValidateOutcome(h) ==
    LET sc == ScanHtml(ScanStart, h)
        n == TotalCount(sc.cleaned_contents)
    IN  IF HtmlLen(h) < MinHtmlLen THEN "short"                       \* 17-18
        ELSE IF ~HasTableTag(h) THEN "no_table"                       \* 21-22
        ELSE IF sc.rows > MaxTableRows THEN "too_many_rows"           \* 25-27
        ELSE IF sc.rows < MinTableRows THEN "too_few_rows"            \* 29-30
        ELSE IF sc.cells > MaxTableCells THEN "too_many_cells"        \* 33-35
        ELSE IF n > 0 /\ 10 * MostCommonCount(sc.cleaned_contents) > 7 * n
             THEN "repetitive"                                        \* 42-48
        ELSE IF 10 * EmptyCount(sc.cleaned_contents) > 8 * Max(1, n)
             THEN "mostly_empty"                                      \* 51-54
        ELSE "valid"                                                  \* 56

_validate_html_table(h) == ValidateOutcome(h) = "valid"

\* the number of <tr> start tags of an HTML string: its <tr> elements
TrElements(h) ==
    LET RECURSIVE InPattern(_)
        InPattern(pat) ==
            IF pat = <<>> THEN 0
            ELSE (IF Head(pat) = "<tr>" THEN 1 ELSE 0) + InPattern(Tail(pat))
        RECURSIVE InHtml(_)
        InHtml(g) ==
            IF g = <<>> THEN 0 ELSE Head(g).n * InPattern(Head(g).pat) + InHtml(Tail(g))
    IN  InHtml(h)

(***************************************************************************)
(* One call of _validate_html_table.                                       *)
(***************************************************************************)
Row(cells) == <<"<tr>">> \o cells \o <<"</tr>">>
Cell(c) == <<"<td>">> \o c \o <<"</td>">>

RowAB == Row(Cell(<<"a">>) \o Cell(<<"b">>))
RowCD == Row(Cell(<<"c">>) \o Cell(<<"d">>))
RowAA == Row(Cell(<<"a">>) \o Cell(<<"a">>))
RowBlank == Row(Cell(<<"<b>">>) \o Cell(<<"nan">>))
RowWide == Row(Cell(<<"a">>) \o Cell(<<"b">>) \o Cell(<<"c">>) \o Cell(<<"d">>) \o Cell(<<"a">>)
               \o Cell(<<"b">>) \o Cell(<<"c">>) \o Cell(<<"d">>) \o Cell(<<"a">>) \o Cell(<<"b">>)
               \o Cell(<<"c">>))
RowUnclosed == <<"<tr>">> \o Cell(<<"a">>) \o Cell(<<"b">>)

HtmlSegments ==
    {[pat |-> RowAB, n |-> 1], [pat |-> RowAB, n |-> 2], [pat |-> RowAB, n |-> 201],
     [pat |-> RowCD, n |-> 1], [pat |-> RowCD, n |-> 200],
     [pat |-> RowAA, n |-> 2], [pat |-> RowBlank, n |-> 2],
     [pat |-> RowWide, n |-> 100],
     [pat |-> RowUnclosed, n |-> 1], [pat |-> RowUnclosed, n |-> 201],
     [pat |-> <<"<tr>">>, n |-> 201]}

\* the call returns at the return statement named by outcome
ValidateReturns(outcome) ==
    /\ v_pc = "call"
    /\ ValidateOutcome(html) = outcome
    /\ v_result' = _validate_html_table(html)
    /\ v_pc' = "returned"
    /\ UNCHANGED html
    /\ UNCHANGED <<split_vars, group_vars, transform_vars, normalize_vars, context_vars, compare_vars>>

ValidateShort == ValidateReturns("short")                    \* 18
ValidateNoTable == ValidateReturns("no_table")               \* 22
ValidateTooManyRows == ValidateReturns("too_many_rows")      \* 27
ValidateTooFewRows == ValidateReturns("too_few_rows")        \* 30
ValidateTooManyCells == ValidateReturns("too_many_cells")    \* 35
ValidateRepetitive == ValidateReturns("repetitive")          \* 48
ValidateMostlyEmpty == ValidateReturns("mostly_empty")       \* 54
ValidateAccept == ValidateReturns("valid")                   \* 56

TableNext ==
    \/ ValidateShort
    \/ ValidateNoTable
    \/ ValidateTooManyRows
    \/ ValidateTooFewRows
    \/ ValidateTooManyCells
    \/ ValidateRepetitive
    \/ ValidateMostlyEmpty
    \/ ValidateAccept

(***************************************************************************)
(* _table_to_md_tsv_and_sentences (src/dolphin_transformer.py 59-237), by  *)
(* the parser of 141-221, which is the one that runs when pandas cannot be *)
(* imported or fails on the table, and _simplify_html_table (240-283).     *)
(* The strings they return are modelled by their lengths; None is -1.  A   *)
(* cell is the length of its cleaned content, a row sentence its length    *)
(* and the number of its colons.  The texts of the cells hold no colon, no *)
(* pipe and no whitespace.                                                 *)
(***************************************************************************)
\* the tokens of an HTML string, one after the other
RECURSIVE Repeated(_, _)
Repeated(pat, n) == IF n = 0 THEN <<>> ELSE pat \o Repeated(pat, n - 1)

RECURSIVE Tokens(_)
Tokens(h) == IF h = <<>> THEN <<>> ELSE Repeated(Head(h).pat, Head(h).n) \o Tokens(Tail(h))

\* re.findall(open .*? close): the captured runs of tokens, as ScanRowToken
\* and ScanCellToken count them
RECURSIVE FindFrom(_, _, _, _, _, _, _)
FindFrom(toks, k, open, close, inside, run, found) ==
    IF k > Len(toks) THEN found
    ELSE IF ~inside
         THEN FindFrom(toks, k + 1, open, close, toks[k] = open, <<>>, found)
         ELSE IF toks[k] = close
              THEN FindFrom(toks, k + 1, open, close, FALSE, <<>>, Append(found, run))
              ELSE FindFrom(toks, k + 1, open, close, TRUE, Append(run, toks[k]), found)

FindAll(toks, open, close) == FindFrom(toks, 1, open, close, FALSE, <<>>, <<>>)

\* a pattern that leaves no <tr> open
Balanced(pat) == ~ScanPattern(ScanStart, pat, 1).in_row

\* re.findall(r"<tr[^>]*>(.*?)</tr>", html): when no pattern leaves a row
\* open, the rows of the string are the rows of its patterns, repeated
RECURSIVE RowsOfSegments(_)
RowsOfSegments(h) ==
    IF h = <<>> THEN <<>>
    ELSE Repeated(FindAll(Head(h).pat, "<tr>", "</tr>"), Head(h).n)
         \o RowsOfSegments(Tail(h))

FindRows(h) ==
    IF \A k \in 1..Len(h) : Balanced(h[k].pat)
    THEN RowsOfSegments(h)
    ELSE FindAll(Tokens(h), "<tr>", "</tr>")

\* len(re.sub(r"<.*?>", "", c).strip()[:limit]) for a captured cell c
RECURSIVE CleanedLen(_)
CleanedLen(c) ==
    IF c = <<>> THEN 0
    ELSE (IF IsTag(Head(c)) THEN 0 ELSE TokenLen(Head(c))) + CleanedLen(Tail(c))

\* 150-153, 262-265: the cells of a row that are not empty, cut at limit
RECURSIVE NonEmptyCells(_, _)
NonEmptyCells(cells, limit) ==
    IF cells = <<>> THEN <<>>
    ELSE (IF CleanedLen(Head(cells)) > 0
          THEN <<Min(limit, CleanedLen(Head(cells)))>> ELSE <<>>)
         \o NonEmptyCells(Tail(cells), limit)

\* 148-156, 260-271: the rows that have a cell and at most max_cells cells;
\* a row of the result is [i, cells], i the index of the row in rows
RECURSIVE KeptRows(_, _, _, _)
KeptRows(rows, i, limit, max_cells) ==
    IF i >= Len(rows) THEN <<>>
    ELSE LET cells == NonEmptyCells(FindAll(rows[i + 1], "<td>", "</td>"), limit)
         IN  (IF cells # <<>> /\ Len(cells) <= max_cells
              THEN <<[i |-> i, cells |-> cells]>> ELSE <<>>)
             \o KeptRows(rows, i + 1, limit, max_cells)

FirstOf(s, n) == SubSeq(s, 1, Min(n, Len(s)))

\* sum of min(cut, s[k]) over the first n entries of s
RECURSIVE SumCut(_, _, _)
SumCut(s, n, cut) ==
    IF n = 0 \/ s = <<>> THEN 0 ELSE Min(cut, Head(s)) + SumCut(Tail(s), n - 1, cut)

Truncated == 16     \* len("\n... (truncated)")
Ellipsis == 3       \* len("...")

\* 181-188: the sentence of a data row r under the headers: the parts
\* "col: val" of the cells there are, joined by ", "; its colons are those
\* of the parts that begin before the cut at 400
RECURSIVE SentenceFrom(_, _, _, _)
SentenceFrom(headers, r, k, st) ==
    IF k > Len(headers) \/ k > Len(r) THEN st
    ELSE LET start == IF st.parts = 0 THEN 0 ELSE st.len + 2
             colon_at == start + headers[k]
         IN  SentenceFrom(headers, r, k + 1,
                          [len |-> colon_at + 2 + Min(80, r[k]),
                           parts |-> st.parts + 1,
                           colons |-> st.colons + (IF colon_at < 400 THEN 1 ELSE 0)])

RowSentence(headers, r) ==
    LET st == SentenceFrom(headers, r, 1, [len |-> 0, parts |-> 0, colons |-> 0])
    IN  [len |-> IF st.len > 400 THEN 400 + Ellipsis ELSE st.len, colons |-> st.colons]

\* the length of "\n".join(lines) for the lengths of the lines
JoinedLines(lens) == SumOf(lens) + Len(lens) - 1

NoConversion == [markdown |-> -1, tsv |-> -1, headers |-> <<>>, row_sentences |-> <<>>]

\* 162-221: the conversion of the rows kept, the first of them the headers
ConversionOf(headers, data_rows) ==
    LET n == Len(headers)
        tsv_lines ==                                                      \* 171-176
            <<SumOf(headers) + n - 1>>
            \o [k \in 1..Len(data_rows) |->
                   SumCut(data_rows[k].cells, n, 100) + n - 1]
        md_lines ==                                                       \* 203-211
            <<4 + SumCut(headers, n, 30) + 3 * (n - 1), 4 + 3 * n + 3 * (n - 1)>>
            \o [k \in 1..Min(20, Len(data_rows)) |->
                   4 + SumCut(data_rows[k].cells, n, 30) + 3 * (n - 1)]
    IN  The({[markdown |-> IF markdown > 6000 THEN 6000 + Truncated ELSE markdown,
              tsv |-> IF tsv > 5000 THEN 5000 + Truncated ELSE tsv,
              headers |-> headers,
              row_sentences |-> [k \in 1..Len(data_rows) |->
                                    RowSentence(headers, data_rows[k].cells)]] :
                tsv \in {JoinedLines(tsv_lines)},                          \* 192
                markdown \in {JoinedLines(md_lines)}})                     \* 213

\* 148-163
ConversionOfRows(rows) ==
    The({IF Len(simple_rows) < 2 THEN NoConversion                        \* 158-160
         ELSE The({ConversionOf(headers, data_rows) :
                      headers \in {FirstOf(simple_rows[1].cells, 10)},    \* 162
                      data_rows \in {SubSeq(simple_rows, 2,               \* 163
                                            Min(30, Len(simple_rows)))}}) :
            simple_rows \in {KeptRows(FirstOf(rows, 50), 0, 100, 10)}})   \* 148-156

_table_to_md_tsv_and_sentences(h) ==
    IF ~_validate_html_table(h) THEN NoConversion                         \* 72-74
    ELSE The({IF Len(rows) > 50 THEN NoConversion                         \* 144-146
              ELSE ConversionOfRows(rows) :
                 rows \in {FindRows(h)}})                                 \* 143

\* 260-283: "Headers: ..." for row 0 and "Row i: ..." for row i
SimplifiedRows(rows) ==
    The({IF Len(simplified_rows) >= 2                                     \* 273
         THEN The({IF result > 1500 THEN 1500 + Truncated ELSE result :
                      result \in {JoinedLines(
                          [k \in 1..Len(simplified_rows) |->
                              (IF simplified_rows[k].i = 0 THEN 9
                               ELSE IF simplified_rows[k].i < 10 THEN 7 ELSE 8)
                              + SumOf(simplified_rows[k].cells)
                              + 3 * (Len(simplified_rows[k].cells) - 1)])}})
         ELSE 0 :
            simplified_rows \in {KeptRows(FirstOf(rows, 20), 0, 80, 8)}})

\* the simplified HTML without the limit of 50 rows of line 256
SimplifyManyRows(h) ==
    IF HtmlLen(h) < 20 THEN 0
    ELSE The({IF rows = <<>> THEN 0 ELSE SimplifiedRows(rows) :
                 rows \in {FindRows(h)}})

_simplify_html_table(h) ==
    IF HtmlLen(h) < 20 THEN 0                                             \* 250-251
    ELSE The({IF rows = <<>> \/ Len(rows) > 50 THEN 0                     \* 256-257
              ELSE SimplifiedRows(rows) :
                 rows \in {FindRows(h)}})                                 \* 254

(***************************************************************************)
(* The tables the transform is given as the text of a tab element.         *)
(***************************************************************************)
Table(body) ==
    <<[pat |-> <<"<table>">>, n |-> 1]>> \o body \o <<[pat |-> <<"</table>">>, n |-> 1]>>

RowTen == Row(Cell(<<"a10">>) \o Cell(<<"b10">>))
RowThirty == Row(Cell(<<"a30">>) \o Cell(<<"b30">>))
RowHuge == Row(Cell(<<"a30000">>) \o Cell(<<"b30000">>))

\* an empty table; a table of more than 50,000 characters; one of a single
\* row; one of 51 rows; one of two rows of one cell of one character; one
\* of 12 rows of 10 cells of 30 characters; one of two rows, one of six
\* rows, of two cells of 10 characters; one of six rows of one cell
Tables ==
    [empty |-> Table(<<>>),
     huge |-> Table(<<[pat |-> RowHuge, n |-> 2]>>),
     one_row |-> Table(<<[pat |-> RowTen, n |-> 1]>>),
     many_rows |-> Table(<<[pat |-> RowTen, n |-> 51]>>),
     small |-> Table(<<[pat |-> Row(Cell(<<"a">>)), n |-> 1],
                       [pat |-> Row(Cell(<<"b">>)), n |-> 1]>>),
     wide |-> Table(<<[pat |-> Row(Repeated(Cell(<<"a30">>) \o Cell(<<"b30">>), 5)),
                       n |-> 12]>>),
     two_rows |-> Table(<<[pat |-> RowTen, n |-> 2]>>),
     six_rows |-> Table(<<[pat |-> RowTen, n |-> 6]>>),
     one_column |-> Table(<<[pat |-> Row(Cell(<<"a10">>)) \o Row(Cell(<<"b10">>)),
                            n |-> 3]>>)]

(***************************************************************************)
(* The transform (src/dolphin_transformer.py 579-897).                     *)
(*                                                                         *)
(* An element is the dict of the input, [id, label, text, bbox,            *)
(* reading_order]: id tells the elements of a document apart and is what   *)
(* the words of its text carry as src; label is lower case; bbox is <<>>   *)
(* for a missing or empty list.  A page is [page_number, elements].  The   *)
(* markdown rendering is built from the same parts as the chunks and no    *)
(* chunk depends on it; it is left out.                                    *)
(***************************************************************************)
\* defaults of the signature (583-590)
exclude_labels == {"header", "foot"}
para_max_chars == 1500
max_chunk_length == 1200

\* 630-641 and the default of DOLPHIN2TYPE.get (670, 857)
DOLPHIN2TYPE(label) ==
    CASE label = "title" -> "title"
      [] label = "sec" -> "section"
      [] label = "sub_sec" -> "subsection"
      [] label = "para" -> "text"
      [] label = "tab" -> "table"
      [] label = "fig" -> "figure"
      [] label = "cap" -> "caption"
      [] label = "fnote" -> "marginalia"
      [] label = "header" -> "header"
      [] label = "foot" -> "marginalia"
      [] OTHER -> "text"

\* sorted(elements, key=reading_order) (648): a stable insertion sort
RECURSIVE InsertByReadingOrder(_, _)
InsertByReadingOrder(sorted, el) ==
    IF sorted = <<>> THEN <<el>>
    ELSE IF sorted[Len(sorted)].reading_order <= el.reading_order
         THEN Append(sorted, el)
         ELSE Append(InsertByReadingOrder(SubSeq(sorted, 1, Len(sorted) - 1), el),
                     sorted[Len(sorted)])

RECURSIVE SortedByReadingOrder(_)
SortedByReadingOrder(els) ==
    IF els = <<>> THEN <<>>
    ELSE InsertByReadingOrder(SortedByReadingOrder(SubSeq(els, 1, Len(els) - 1)),
                              els[Len(els)])

(***************************************************************************)
(* _normalize_box (286-306).  w and h are 0 for None.  The unpacking at    *)
(* 300 raises ValueError for a bbox that has not exactly four entries.     *)
(***************************************************************************)
NormalizeBoxReturnsNone(bbox, w, h) == bbox = <<>> \/ w = 0 \/ h = 0

NormalizeBoxRaises(bbox, w, h) ==
    ~NormalizeBoxReturnsNone(bbox, w, h) /\ Len(bbox) # 4

_normalize_box(bbox, w, h) ==
    IF NormalizeBoxReturnsNone(bbox, w, h) THEN NoBox
    ELSE Box(RoundDiv(bbox[1], w), RoundDiv(bbox[2], h),
             RoundDiv(bbox[3], w), RoundDiv(bbox[4], h))

(***************************************************************************)
(* _estimate_sub_bbox (436-476).  The products with bbox_height are        *)
(* rounded down to a whole number of 1/Unit.                               *)
(***************************************************************************)
RECURSIVE SumWordLens(_, _)
SumWordLens(t, k) == IF k = 0 THEN 0 ELSE t[k].len + SumWordLens(t, k - 1)

MinHeight == Unit \div 100

_estimate_sub_bbox(original_bbox, text_part, full_text, part_index) ==
    IF original_bbox.null \/ text_part = <<>> \/ full_text = <<>>
    THEN original_bbox
    ELSE LET part_length == TextLen(text_part)
             full_length == TextLen(full_text)
             bbox_height == FloatSub(original_bbox.b, original_bbox.t)
             start_chars == SumWordLens(full_text, Min(Len(full_text), part_index * 20))
             t == FloatAdd(original_bbox.t,
                           FloatScale(bbox_height, start_chars, full_length))
             b == FloatMin(original_bbox.b,
                           FloatAdd(original_bbox.t,
                                    FloatScale(bbox_height, start_chars + part_length,
                                               full_length)))
         IN  Box(original_bbox.l, t, original_bbox.r,
                 IF FloatGe(t, b) THEN FloatAdd(t, MinHeight) ELSE b)

(***************************************************************************)
(* The chunks one element gives (664-866), by branch.                      *)
(***************************************************************************)
ElementText(el) == strip(el.text)

\* 676-706: the figure, fused with the caption that follows it if any
NextIsAnyElement(els, i) == i + 1 < Len(els)
NextIsCaption(els, i) == i + 1 < Len(els) /\ els[i + 2].label = "cap"

FigureChunk(els, i, page, bbox_norm) ==
    LET el == els[i + 1]
        ro == el.reading_order
        fused == NextIsCaption(els, i)
        cap == els[i + 2]
        cap_txt == IF fused THEN strip(cap.text) ELSE <<>>
        ro_end == IF fused THEN cap.reading_order ELSE ro
        vis_text == IF cap_txt # <<>> THEN cap_txt ELSE ElementText(el)
    IN  WithBoxOf(Chunk(ChunkId(page, ro, ro_end, 0), "figure", vis_text, page, bbox_norm,
                        IF fused THEN <<el.label, "cap">> ELSE <<el.label>>, ro, ro_end),
                  el.id, -1)

\* 816-828
CaptionChunks(el, page, bbox_norm) ==
    IF ElementText(el) # <<>>
    THEN <<WithBoxOf(Chunk(ChunkId(page, el.reading_order, el.reading_order, 0),
                           "caption", ElementText(el), page, bbox_norm, <<el.label>>,
                           el.reading_order, el.reading_order),
                     el.id, -1)>>
    ELSE <<>>

\* 830-866
TextParts(el) ==
    IF ElementText(el) = <<>> THEN <<>>
    ELSE IF el.label = "para"
         THEN _split_long_paragraph(ElementText(el), para_max_chars, 1)
         ELSE <<ElementText(el)>>

TextChunks(el, page, bbox_norm) ==
    LET parts == TextParts(el)
        ro == el.reading_order
    IN  [k \in 1..Len(parts) |->
            LET si == k - 1
                estimated == Len(parts) > 1 /\ ~bbox_norm.null
                part_bbox == IF estimated
                             THEN _estimate_sub_bbox(bbox_norm, parts[k], ElementText(el), si)
                             ELSE bbox_norm
            IN  [WithBoxOf(Chunk(ChunkId(page, ro, ro, si), DOLPHIN2TYPE(el.label),
                                 parts[k], page, part_bbox, <<el.label>>, ro, ro),
                           el.id, IF estimated THEN si ELSE -1)
                 EXCEPT !.part_index = IF Len(parts) > 1 THEN si ELSE -1]]

\* 726-740: Markdown before TSV before the simplified HTML; 0 is ""
TsvFirst(conv, h) ==
    IF conv.tsv > 0 THEN conv.tsv
    ELSE IF conv.markdown > 0 THEN conv.markdown
    ELSE _simplify_html_table(h)

main_text(conv, h) ==
    IF conv.markdown > 0 THEN conv.markdown
    ELSE IF conv.tsv > 0 THEN conv.tsv
    ELSE _simplify_html_table(h)

\* 738-750: where the branch is left once the text is converted
ConvertedExit(conv, main) ==
    IF main = 0 THEN "unconverted"                                        \* 738-740
    ELSE IF main > 3000 THEN "oversized"                                  \* 743-745
    ELSE IF Len(conv.headers) = 0 \/ main < 50 THEN "meaningless"         \* 748-750
    ELSE "mapped"

\* 708-750: where the branch of a tab element with text h is left
TableExit(h) ==
    IF HtmlLen(h) < 30 THEN "short"                                       \* 711-712
    ELSE IF HtmlLen(h) > 50000 THEN "large"                               \* 714-716
    ELSE IF ~_validate_html_table(h) THEN "malformed"                     \* 719-721
    ELSE The({The({ConvertedExit(conv, main) : main \in {main_text(conv, h)}}) :
                 conv \in {_table_to_md_tsv_and_sentences(h)}})           \* 724

\* 779-794: the blocks of row sentences from start on that are kept, each
\* [start, len, colons]
RECURSIVE RowBlocks(_, _, _)
RowBlocks(rsents, start, size) ==
    IF start >= Len(rsents) THEN <<>>
    ELSE LET block == SubSeq(rsents, start + 1, Min(start + size, Len(rsents)))
             len == JoinedLines([k \in 1..Len(block) |-> block[k].len])
             colons == SumOf([k \in 1..Len(block) |-> block[k].colons])
         IN  (IF len > 800 \/ len < 20 \/ colons < 2
              THEN <<>> ELSE <<[start |-> start, len |-> len, colons |-> colons]>>)
             \o RowBlocks(rsents, start + size, size)

\* 752-809: the table chunk and, when table_row_block_size is given and
\* there are 4 to 30 row sentences, the chunks of their blocks; all of them
\* hold the one box dict of the element
RowChunks(el, page, bbox_norm, blocks) ==
    [k \in 1..Len(blocks) |->
        [WithBoxOf(Chunk(RowsChunkId(page, el.reading_order, blocks[k].start),
                         "table_row",
                         <<Word({el.id}, blocks[k].len, "x", "colon", 0)>>,
                         page, bbox_norm, <<el.label, "table_row_sentences">>,
                         el.reading_order, el.reading_order),
                   el.id, -1)
         EXCEPT !.parent_table_chunk_id =
                    ChunkId(page, el.reading_order, el.reading_order, 0)]]

ConvertedChunks(el, page, bbox_norm, block_size, conv) ==
    LET ro == el.reading_order
        rsents == conv.row_sentences
    IN  <<WithBoxOf(Chunk(ChunkId(page, ro, ro, 0), "table",
                          <<Word({el.id}, main_text(conv, el.html), "x", "lower", 0)>>,
                          page, bbox_norm, <<el.label>>, ro, ro),
                    el.id, -1)>>
        \o (IF block_size # 0 /\ Len(rsents) > 3 /\ Len(rsents) <= 30
            THEN The({RowChunks(el, page, bbox_norm, blocks) :
                         blocks \in {RowBlocks(rsents, 0, Min(block_size, 3))}})
            ELSE <<>>)

TableChunks(el, page, bbox_norm, block_size) ==
    The({ConvertedChunks(el, page, bbox_norm, block_size, conv) :
            conv \in {_table_to_md_tsv_and_sentences(el.html)}})

(***************************************************************************)
(* The external optimizer (src/chunk_optimizer.py).                        *)
(***************************************************************************)
\* text.isupper(): some cased character, and every cased character upper
IsUpper(t) ==
    /\ \E k \in 1..Len(t) : t[k].form = "upper"
    /\ \A k \in 1..Len(t) : t[k].form \in {"upper", "digits"}

\* ':' in text
HasColon(t) == \E k \in 1..Len(t) : t[k].form = "colon"

\* re.match(r'^(figure|fig|table|tab)\s*\d+', text.lower().strip()): the
\* keyword and the number are one word ("fig1") or the first two words
StartsLikeCaption(t) ==
    /\ t # <<>>
    /\ \/ t[1].form = "fignum"
       \/ t[1].form = "figure" /\ Len(t) >= 2 /\ t[2].form = "digits"

\* thresholds of classify_chunk_type_enhanced (136-149, 156)
MarginLow == (15 * Unit) \div 100
MarginHigh == (85 * Unit) \div 100
TopMargin == (10 * Unit) \div 100
BottomMargin == (90 * Unit) \div 100
AreaTextLen == 100
HeaderTextLen == 50

\* classify_chunk_type_enhanced (126-160); bbox is NoBox for None
classify_chunk_type_enhanced(t, bbox) ==
    LET in_margin == \/ FloatLt(bbox.r, MarginLow)
                     \/ FloatGt(bbox.l, MarginHigh)
                     \/ FloatLt(bbox.b, TopMargin)
                     \/ FloatGt(bbox.t, BottomMargin)
    IN  IF ~bbox.null /\ in_margin THEN "marginalia"
        ELSE IF ~bbox.null /\ FloatLt(bbox.t, MarginLow) /\ TextLen(t) < AreaTextLen
             THEN "header"
        ELSE IF ~bbox.null /\ FloatGt(bbox.t, MarginHigh) /\ TextLen(t) < AreaTextLen
             THEN "footer"
        ELSE IF StartsLikeCaption(t) THEN "caption"
        ELSE IF TextLen(t) < HeaderTextLen /\ (IsUpper(t) \/ HasColon(t)) THEN "header"
        ELSE "text"

\* step 2 if it left the chunks of type table_row as they are
ReclassifiedExceptRows(cs) ==
    [k \in 1..Len(cs) |->
        IF cs[k].chunk_type = "table_row" THEN cs[k]
        ELSE [cs[k] EXCEPT !.chunk_type =
                               classify_chunk_type_enhanced(cs[k].text, cs[k].box)]]

\* optimize_chunks_for_rag, step 2 (291-299)
Reclassified(cs) ==
    [k \in 1..Len(cs) |->
        [cs[k] EXCEPT !.chunk_type = classify_chunk_type_enhanced(cs[k].text, cs[k].box)]]

\* is_same_line (64-75): |center1_y - center2_y| < 0.01, on doubled centers
SameLineTolerance == Unit \div 100

is_same_line(bbox1, bbox2) ==
    LET d == FloatSub(FloatAdd(bbox1.t, bbox1.b), FloatAdd(bbox2.t, bbox2.b))
    IN  ~IsNaN(d) /\ d < 2 * SameLineTolerance /\ 0 - d < 2 * SameLineTolerance

\* calculate_spatial_distance(bbox1, bbox2) < 0.05 (46-61, 122-123): the
\* squares are compared, on doubled centers and in steps of 100/Unit so
\* that they stay within the integers of TLC
CloseEnough == (5 * Unit) \div 100

IsCloseEnough(bbox1, bbox2) ==
    LET dx == FloatSub(FloatAdd(bbox1.l, bbox1.r), FloatAdd(bbox2.l, bbox2.r))
        dy == FloatSub(FloatAdd(bbox1.t, bbox1.b), FloatAdd(bbox2.t, bbox2.b))
        sx == (IF dx < 0 THEN 0 - dx ELSE dx) \div 100
        sy == (IF dy < 0 THEN 0 - dy ELSE dy) \div 100
        limit == (2 * CloseEnough) \div 100
    IN  /\ ~IsNaN(dx) /\ ~IsNaN(dy)
        /\ sx < limit /\ sy < limit
        /\ sx * sx + sy * sy < limit * limit

\* should_group_chunks (78-123)
max_combined_length == 800

should_group_chunks(chunk1, chunk2) ==
    /\ TextLen(chunk1.text) + TextLen(chunk2.text) <= max_combined_length
    /\ chunk1.chunk_type = chunk2.chunk_type
    /\ chunk1.chunk_type \notin {"table", "figure", "image"}
    /\ chunk1.page = chunk2.page
    /\ ~chunk1.box.null /\ ~chunk2.box.null
    /\ (is_same_line(chunk1.box, chunk2.box) \/ IsCloseEnough(chunk1.box, chunk2.box))

\* the smart text joining of merge_chunks (207-219)
JoinedText(t1, t2) ==
    LET text1 == strip(t1)
        text2 == strip(t2)
        last == text1[Len(text1)]
        front == SubSeq(text1, 1, Len(text1) - 1)
    IN  IF text1 # <<>> /\ last.end = "hyph"
        THEN IF last.len = 1
             THEN IF text2 = <<>> THEN front \o Trailing(last.gap)
                  ELSE front \o [text2 EXCEPT ![1].gap = last.gap]
             ELSE IF text2 = <<>>
                  THEN front \o <<[last EXCEPT !.len = last.len - 1, !.end = "x"]>>
                  ELSE front
                       \o <<[text2[1] EXCEPT !.gap = last.gap,
                                             !.len = last.len - 1 + text2[1].len,
                                             !.src = last.src \cup text2[1].src,
                                             !.form = IF text2[1].form = "colon"
                                                      THEN "colon" ELSE last.form]>>
                       \o Tail(text2)
        ELSE IF text2 = <<>> THEN text1 \o Trailing(1)
             ELSE text1 \o [text2 EXCEPT ![1].gap = 1]

\* merge_chunks (200-261): everything but text, box and reading_order_range
\* is that of chunk1
merge_chunks(chunk1, chunk2) ==
    [chunk1 EXCEPT
        !.text = JoinedText(chunk1.text, chunk2.text),
        !.box = IF ~chunk1.box.null /\ ~chunk2.box.null
                THEN Envelope(chunk1.box, chunk2.box) ELSE chunk1.box,
        !.box_obj.gen = IF ~chunk1.box.null /\ ~chunk2.box.null
                        THEN chunk1.box_obj.gen + 1 ELSE chunk1.box_obj.gen,
        !.reading_order_range =
            <<Min(chunk1.reading_order_range[1], chunk2.reading_order_range[1]),
              Max(chunk1.reading_order_range[2], chunk2.reading_order_range[2])>>]

\* sorted(chunks, key=(page, reading_order_range[0])) (171-174), stable
ComesBefore(c1, c2) ==
    \/ c1.page < c2.page
    \/ c1.page = c2.page /\ c1.reading_order_range[1] <= c2.reading_order_range[1]

RECURSIVE InsertByPosition(_, _)
InsertByPosition(sorted, c) ==
    IF sorted = <<>> THEN <<c>>
    ELSE IF ComesBefore(sorted[Len(sorted)], c)
         THEN Append(sorted, c)
         ELSE Append(InsertByPosition(SubSeq(sorted, 1, Len(sorted) - 1), c),
                     sorted[Len(sorted)])

RECURSIVE SortedByPosition(_)
SortedByPosition(cs) ==
    IF cs = <<>> THEN <<>>
    ELSE InsertByPosition(SortedByPosition(SubSeq(cs, 1, Len(cs) - 1)), cs[Len(cs)])

\* the inner while loop of group_chunks_contextually (184-192); j is 0-based
RECURSIVE MergeFollowing(_, _, _)
MergeFollowing(sorted_chunks, current_chunk, j) ==
    IF j < Len(sorted_chunks) /\ should_group_chunks(current_chunk, sorted_chunks[j + 1])
    THEN MergeFollowing(sorted_chunks, merge_chunks(current_chunk, sorted_chunks[j + 1]),
                        j + 1)
    ELSE [chunk |-> current_chunk, j |-> j]

\* the outer while loop (179-195)
RECURSIVE GroupFrom(_, _)
GroupFrom(sorted_chunks, i) ==
    IF i < Len(sorted_chunks)
    THEN LET m == MergeFollowing(sorted_chunks, sorted_chunks[i + 1], i + 1)
         IN  <<m.chunk>> \o GroupFrom(sorted_chunks, IF m.j > i + 1 THEN m.j ELSE i + 1)
    ELSE <<>>

\* group_chunks_contextually (163-197)
group_chunks_contextually(cs) ==
    IF cs = <<>> THEN cs ELSE GroupFrom(SortedByPosition(cs), 0)

(***************************************************************************)
(* split_long_chunk (src/chunk_optimizer.py 335-371).  st holds            *)
(* current_text and the texts of the chunks made so far.                   *)
(***************************************************************************)
FitsTogether(current_text, sentence, max_length) ==
    TextLen(current_text) + TextLen(sentence) <= max_length

RECURSIVE SplitIntoTexts(_, _, _, _)
SplitIntoTexts(sentences, k, st, max_length) ==
    IF k > Len(sentences)
    THEN IF st.current_text # <<>> THEN Append(st.texts, st.current_text) ELSE st.texts
    ELSE IF FitsTogether(st.current_text, sentences[k], max_length)
         THEN SplitIntoTexts(sentences, k + 1,
                         [st EXCEPT !.current_text = ConcatSpace(st.current_text, sentences[k])],
                         max_length)
         ELSE SplitIntoTexts(sentences, k + 1,
                         [current_text |-> sentences[k],
                          texts |-> IF st.current_text # <<>>
                                    THEN Append(st.texts, st.current_text) ELSE st.texts],
                         max_length)

split_long_chunk(chunk, max_length) ==
    IF TextLen(chunk.text) <= max_length THEN <<chunk>>
    ELSE LET texts == SplitIntoTexts(RawSentences(chunk.text), 1,
                                 [current_text |-> <<>>, texts |-> <<>>], max_length)
         IN  IF texts = <<>> THEN <<chunk>>
             ELSE [n \in 1..Len(texts) |->
                      [chunk EXCEPT !.text = texts[n], !.chunk_id.split = n - 1]]

\* optimize_chunks_for_rag, step 4 (305-314)
RECURSIVE SplitLong(_, _)
SplitLong(cs, max_length) ==
    IF cs = <<>> THEN <<>>
    ELSE (IF TextLen(cs[1].text) > max_length
          THEN split_long_chunk(cs[1], max_length) ELSE <<cs[1]>>)
         \o SplitLong(Tail(cs), max_length)

\* optimize_chunks_for_rag (264-332): the chunks it returns
optimize_chunks_for_rag(cs, max_length) ==
    IF cs = <<>> THEN cs
    ELSE SplitLong(group_chunks_contextually(Reclassified(cs)), max_length)

(***************************************************************************)
(* _validate_and_enhance_chunks (src/dolphin_transformer.py 515-576).      *)
(***************************************************************************)
\* max(0.0, min(1.0, x)) (562)
Clamp(x) == FloatMax(0, FloatMin(Unit, x))

\* 555-562: swap what is out of order, then clamp
FixedBox(bbox) ==
    LET swap_lr == FloatGt(bbox.l, bbox.r)
        swap_tb == FloatGt(bbox.t, bbox.b)
    IN  Box(Clamp(IF swap_lr THEN bbox.r ELSE bbox.l),
            Clamp(IF swap_tb THEN bbox.b ELSE bbox.t),
            Clamp(IF swap_lr THEN bbox.l ELSE bbox.r),
            Clamp(IF swap_tb THEN bbox.t ELSE bbox.b))

\* the loop over the chunks (535-562) fixes a box dict once for every chunk
\* that holds it
RECURSIVE FixedTimes(_, _)
FixedTimes(bbox, n) == IF n = 0 THEN bbox ELSE FixedTimes(FixedBox(bbox), n - 1)

Holders(cs, k) ==
    {j \in 1..Len(cs) : ~cs[j].box.null /\ cs[j].box_obj = cs[k].box_obj}

Validated(cs) ==
    [k \in 1..Len(cs) |->
        IF cs[k].box.null THEN cs[k]
        ELSE [cs[k] EXCEPT !.box = FixedTimes(cs[k].box, Cardinality(Holders(cs, k)))]]

(***************************************************************************)
(* The documents the transform is given.  A document is a sequence of at   *)
(* most MaxElements elements, each of one of ElementKinds, laid out as a   *)
(* flat element list, as a pages dict of two pages numbered 1 and 2, or as *)
(* a list of two page dicts that are both numbered 1.  Reading orders      *)
(* count the elements of a page, are all the same, or run against the      *)
(* order of the list.  Each of layout, reading orders, pixel boxes and     *)
(* fuse_figure_and_caption is varied against the document of sequential    *)
(* reading orders with a box for every element and the default options.    *)
(***************************************************************************)
ElementKinds ==
    {[label |-> "para", text |-> "short"], [label |-> "para", text |-> "long"],
     [label |-> "title", text |-> "short"],
     [label |-> "fig", text |-> "short"], [label |-> "fig", text |-> "empty"],
     [label |-> "cap", text |-> "short"],
     [label |-> "header", text |-> "short"], [label |-> "foot", text |-> "short"]}

ShortLen == 10
SentenceLen == 700

KindText(kind, id) ==
    CASE kind.text = "short" -> <<Word({id}, ShortLen, "x", "lower", 1)>>
      [] kind.text = "long" -> <<Word({id}, SentenceLen, "stop", "lower", 0),
                                 Word({id}, SentenceLen, "stop", "lower", 2),
                                 Word({id}, SentenceLen, "stop", "lower", 1)>>
      [] OTHER -> <<>>

PageWidth == 100
PageHeight == 100

\* the pixel box of the k-th element of the document
KindBBox(boxes, k) ==
    CASE boxes = "stacked" -> <<10, 9 + 3 * k, 60, 11 + 3 * k>>
      [] boxes = "inverted" -> <<150, 90, 50, -20>>
      [] boxes = "nan" -> <<NaN, 10, 50, 60>>
      [] boxes = "short" -> <<0, 0, 10>>
      [] boxes = "flat" -> <<10, 30, 60, 30>>
      [] OTHER -> <<>>

\* the reading order of the k-th of the n elements of a page
KindReadingOrder(order, k, n) ==
    CASE order = "same" -> 1
      [] order = "reversed" -> n - k + 1
      [] OTHER -> k

Layouts ==
    {[shape |-> "elements", cut |-> 0]}
    \cup {[shape |-> s, cut |-> c] : s \in {"pages", "page_list"}, c \in 1..2}

Configurations ==
    {[layout |-> l, order |-> "sequential", boxes |-> "stacked", fuse |-> TRUE] :
        l \in Layouts}
    \cup {[layout |-> [shape |-> "elements", cut |-> 0], order |-> o,
           boxes |-> "stacked", fuse |-> TRUE] : o \in {"same", "reversed"}}
    \cup {[layout |-> [shape |-> "elements", cut |-> 0], order |-> "sequential",
           boxes |-> b, fuse |-> TRUE] : b \in {"none", "inverted", "nan", "short"}}
    \cup {[layout |-> [shape |-> "elements", cut |-> 0], order |-> "sequential",
           boxes |-> "stacked", fuse |-> FALSE]}

\* elements from..to of the document as the elements of one page
PageElements(kinds, cfg, from, to) ==
    [k \in 1..(to - from + 1) |->
        [id |-> from + k - 1,
         label |-> kinds[from + k - 1].label,
         text |-> KindText(kinds[from + k - 1], from + k - 1),
         bbox |-> KindBBox(cfg.boxes, from + k - 1),
         reading_order |-> KindReadingOrder(cfg.order, k, to - from + 1)]]

Document(kinds, cfg) ==
    LET n == Len(kinds)
        cut == Min(cfg.layout.cut, n)
    IN  IF cfg.layout.shape = "elements"
        THEN [shape |-> "elements", pages |-> <<>>,
              elements |-> PageElements(kinds, cfg, 1, n)]
        ELSE [shape |-> cfg.layout.shape,
              pages |-> <<[page_number |-> 1,
                           elements |-> PageElements(kinds, cfg, 1, cut)],
                          [page_number |-> IF cfg.layout.shape = "pages" THEN 2 ELSE 1,
                           elements |-> PageElements(kinds, cfg, cut + 1, n)]>>,
              elements |-> <<>>]

\* something that is neither a dict with pages nor a list of dicts
Unrecognized == [shape |-> "other", pages |-> <<>>, elements |-> <<>>]

NoMetadata ==
    [optimization_applied |-> FALSE, validation_applied |-> FALSE, chunk_count |-> 0]

\* what analyze_json_structure and compare_structures have not yet returned
NoStructure ==
    [total_chunks |-> 0, chunk_fields |-> {}, has_total_elements |-> FALSE,
     total_elements |-> 0]

NoComparison == [ratio |-> 0, field_coverage |-> 0]

(***************************************************************************)
(* One call of the transform, statement by statement.                      *)
(***************************************************************************)
\* 609-610
InputPagesDict ==
    /\ pc = "call"
    /\ recognition_results.shape = "pages"
    /\ pages_in' = recognition_results.pages
    /\ pc' = "page"
    /\ UNCHANGED <<recognition_results, fuse_figure_and_caption, optimize_for_rag,
                   table_row_block_size, page_no, pno, elements, dims, idx, skip_next,
                   oxcart_chunks, extraction_metadata, raised>>
    /\ UNCHANGED <<split_vars, group_vars, table_vars, normalize_vars, context_vars, compare_vars>>

\* 611-612
InputPageList ==
    /\ pc = "call"
    /\ recognition_results.shape = "page_list"
    /\ recognition_results.pages # <<>>
    /\ pages_in' = recognition_results.pages
    /\ pc' = "page"
    /\ UNCHANGED <<recognition_results, fuse_figure_and_caption, optimize_for_rag,
                   table_row_block_size, page_no, pno, elements, dims, idx, skip_next,
                   oxcart_chunks, extraction_metadata, raised>>
    /\ UNCHANGED <<split_vars, group_vars, table_vars, normalize_vars, context_vars, compare_vars>>

\* 613-614
InputElementList ==
    /\ pc = "call"
    /\ recognition_results.shape = "elements"
    /\ recognition_results.elements # <<>>
    /\ pages_in' = <<[page_number |-> 1, elements |-> recognition_results.elements]>>
    /\ pc' = "page"
    /\ UNCHANGED <<recognition_results, fuse_figure_and_caption, optimize_for_rag,
                   table_row_block_size, page_no, pno, elements, dims, idx, skip_next,
                   oxcart_chunks, extraction_metadata, raised>>
    /\ UNCHANGED <<split_vars, group_vars, table_vars, normalize_vars, context_vars, compare_vars>>

\* 615-616: anything else, an empty list included
InputUnrecognized ==
    /\ pc = "call"
    /\ \/ recognition_results.shape = "other"
       \/ recognition_results.shape = "page_list" /\ recognition_results.pages = <<>>
       \/ recognition_results.shape = "elements" /\ recognition_results.elements = <<>>
    /\ raised' = "ValueError: Unrecognized format"
    /\ pc' = "raised"
    /\ UNCHANGED <<recognition_results, fuse_figure_and_caption, optimize_for_rag,
                   table_row_block_size, pages_in, page_no, pno, elements, dims, idx, skip_next,
                   oxcart_chunks, extraction_metadata>>
    /\ UNCHANGED <<split_vars, group_vars, table_vars, normalize_vars, context_vars, compare_vars>>

\* what page_dims_provider gives for a page (651-656): nothing, when there
\* is no provider or it raises, or the dimensions of the page
PageDims == {<<0, 0>>, <<PageWidth, PageHeight>>}

\* 646-658
PageBegin ==
    /\ pc = "page"
    /\ page_no < Len(pages_in)
    /\ pno' = pages_in[page_no + 1].page_number
    /\ elements' = SortedByReadingOrder(pages_in[page_no + 1].elements)
    /\ dims' \in PageDims
    /\ skip_next' = FALSE
    /\ idx' = 0
    /\ page_no' = page_no + 1
    /\ pc' = "element"
    /\ UNCHANGED <<recognition_results, fuse_figure_and_caption, optimize_for_rag,
                   table_row_block_size, pages_in, oxcart_chunks, extraction_metadata, raised>>
    /\ UNCHANGED <<split_vars, group_vars, table_vars, normalize_vars, context_vars, compare_vars>>

\* 659: the loop over the elements of the page has one more element
AtElement == pc = "element" /\ idx < Len(elements)

\* 660-662
ElementConsumed ==
    /\ AtElement
    /\ skip_next
    /\ skip_next' = FALSE
    /\ idx' = idx + 1
    /\ UNCHANGED <<pc, recognition_results, fuse_figure_and_caption, optimize_for_rag,
                   table_row_block_size, pages_in, page_no, pno, elements, dims,
                   oxcart_chunks, extraction_metadata, raised>>
    /\ UNCHANGED <<split_vars, group_vars, table_vars, normalize_vars, context_vars, compare_vars>>

\* 664-668
ElementExcluded ==
    /\ AtElement
    /\ ~skip_next
    /\ elements[idx + 1].label \in exclude_labels
    /\ idx' = idx + 1
    /\ UNCHANGED <<pc, recognition_results, fuse_figure_and_caption, optimize_for_rag,
                   table_row_block_size, pages_in, page_no, pno, elements, dims, skip_next,
                   oxcart_chunks, extraction_metadata, raised>>
    /\ UNCHANGED <<split_vars, group_vars, table_vars, normalize_vars, context_vars, compare_vars>>

\* 670-674 for an element that is neither consumed nor excluded
AtMappedElement(normalized) ==
    /\ AtElement
    /\ ~skip_next
    /\ elements[idx + 1].label \notin exclude_labels
    /\ normalized = ~NormalizeBoxRaises(elements[idx + 1].bbox, dims[1], dims[2])

\* 674, 300: the ValueError of the unpacking leaves the transform
ElementRaises ==
    /\ AtMappedElement(FALSE)
    /\ raised' = "ValueError: unpack"
    /\ pc' = "raised"
    /\ UNCHANGED <<recognition_results, fuse_figure_and_caption, optimize_for_rag,
                   table_row_block_size, pages_in, page_no, pno, elements, dims, idx, skip_next,
                   oxcart_chunks, extraction_metadata>>
    /\ UNCHANGED <<split_vars, group_vars, table_vars, normalize_vars, context_vars, compare_vars>>

\* 676-706
MapFigure ==
    /\ AtMappedElement(TRUE)
    /\ elements[idx + 1].label = "fig"
    /\ fuse_figure_and_caption
    /\ oxcart_chunks' =
          Append(oxcart_chunks,
                 FigureChunk(elements, idx, pno,
                             _normalize_box(elements[idx + 1].bbox, dims[1], dims[2])))
    /\ skip_next' = NextIsCaption(elements, idx)
    /\ idx' = idx + 1
    /\ UNCHANGED <<pc, recognition_results, fuse_figure_and_caption, optimize_for_rag,
                   table_row_block_size, pages_in, page_no, pno, elements, dims,
                   extraction_metadata, raised>>
    /\ UNCHANGED <<split_vars, group_vars, table_vars, normalize_vars, context_vars, compare_vars>>

\* 816-828
MapCaption ==
    /\ AtMappedElement(TRUE)
    /\ elements[idx + 1].label = "cap"
    /\ oxcart_chunks' =
          oxcart_chunks
          \o CaptionChunks(elements[idx + 1], pno,
                           _normalize_box(elements[idx + 1].bbox, dims[1], dims[2]))
    /\ idx' = idx + 1
    /\ UNCHANGED <<pc, recognition_results, fuse_figure_and_caption, optimize_for_rag,
                   table_row_block_size, pages_in, page_no, pno, elements, dims, skip_next,
                   extraction_metadata, raised>>
    /\ UNCHANGED <<split_vars, group_vars, table_vars, normalize_vars, context_vars, compare_vars>>

\* 830-866
MapText ==
    /\ AtMappedElement(TRUE)
    /\ ~(elements[idx + 1].label = "fig" /\ fuse_figure_and_caption)
    /\ elements[idx + 1].label \notin {"tab", "cap"}
    /\ oxcart_chunks' =
          oxcart_chunks
          \o TextChunks(elements[idx + 1], pno,
                        _normalize_box(elements[idx + 1].bbox, dims[1], dims[2]))
    /\ idx' = idx + 1
    /\ UNCHANGED <<pc, recognition_results, fuse_figure_and_caption, optimize_for_rag,
                   table_row_block_size, pages_in, page_no, pno, elements, dims, skip_next,
                   extraction_metadata, raised>>
    /\ UNCHANGED <<split_vars, group_vars, table_vars, normalize_vars, context_vars, compare_vars>>

\* 659: the page has no more elements
PageEnd ==
    /\ pc = "element"
    /\ idx >= Len(elements)
    /\ pc' = "page"
    /\ UNCHANGED <<recognition_results, fuse_figure_and_caption, optimize_for_rag,
                   table_row_block_size, pages_in, page_no, pno, elements, dims, idx, skip_next,
                   oxcart_chunks, extraction_metadata, raised>>
    /\ UNCHANGED <<split_vars, group_vars, table_vars, normalize_vars, context_vars, compare_vars>>

\* 871-875, once the loop over the pages is over
InternalGrouping ==
    /\ pc = "page"
    /\ page_no >= Len(pages_in)
    /\ oxcart_chunks' =
          IF Len(oxcart_chunks) > 0
          THEN _group_small_chunks(oxcart_chunks, min_chunk_size, max_combined_size)
          ELSE oxcart_chunks
    /\ pc' = "optimize"
    /\ UNCHANGED <<recognition_results, fuse_figure_and_caption, optimize_for_rag,
                   table_row_block_size, pages_in, page_no, pno, elements, dims, idx, skip_next,
                   extraction_metadata, raised>>
    /\ UNCHANGED <<split_vars, group_vars, table_vars, normalize_vars, context_vars, compare_vars>>

\* 878-888; optimize_chunks_for_rag 276-280 and 316-322
ExternalOptimization ==
    /\ pc = "optimize"
    /\ optimize_for_rag
    /\ oxcart_chunks' = optimize_chunks_for_rag(oxcart_chunks, max_chunk_length)
    /\ extraction_metadata' =
          IF oxcart_chunks = <<>> THEN extraction_metadata
          ELSE [extraction_metadata EXCEPT !.optimization_applied = TRUE]
    /\ pc' = "validate"
    /\ UNCHANGED <<recognition_results, fuse_figure_and_caption, optimize_for_rag,
                   table_row_block_size, pages_in, page_no, pno, elements, dims, idx, skip_next, raised>>
    /\ UNCHANGED <<split_vars, group_vars, table_vars, normalize_vars, context_vars, compare_vars>>

\* 880, 889-890: the optimizer module cannot be imported
OptimizerUnavailable ==
    /\ pc = "optimize"
    /\ optimize_for_rag
    /\ pc' = "validate"
    /\ UNCHANGED <<recognition_results, fuse_figure_and_caption, optimize_for_rag,
                   table_row_block_size, pages_in, page_no, pno, elements, dims, idx, skip_next,
                   oxcart_chunks, extraction_metadata, raised>>
    /\ UNCHANGED <<split_vars, group_vars, table_vars, normalize_vars, context_vars, compare_vars>>

\* 878: optimize_for_rag is off
OptimizationOff ==
    /\ pc = "optimize"
    /\ ~optimize_for_rag
    /\ pc' = "validate"
    /\ UNCHANGED <<recognition_results, fuse_figure_and_caption, optimize_for_rag,
                   table_row_block_size, pages_in, page_no, pno, elements, dims, idx, skip_next,
                   oxcart_chunks, extraction_metadata, raised>>
    /\ UNCHANGED <<split_vars, group_vars, table_vars, normalize_vars, context_vars, compare_vars>>

\* 895-897; _validate_and_enhance_chunks 522-524 and 535-574
Validation ==
    /\ pc = "validate"
    /\ oxcart_chunks' = Validated(oxcart_chunks)
    /\ extraction_metadata' =
          IF oxcart_chunks = <<>> THEN extraction_metadata
          ELSE [extraction_metadata EXCEPT !.validation_applied = TRUE,
                                           !.chunk_count = Len(oxcart_chunks)]
    /\ pc' = "returned"
    /\ UNCHANGED <<recognition_results, fuse_figure_and_caption, optimize_for_rag,
                   table_row_block_size, pages_in, page_no, pno, elements, dims, idx, skip_next, raised>>
    /\ UNCHANGED <<split_vars, group_vars, table_vars, normalize_vars, context_vars, compare_vars>>

TransformNext ==
    \/ InputPagesDict
    \/ InputPageList
    \/ InputElementList
    \/ InputUnrecognized
    \/ PageBegin
    \/ ElementConsumed
    \/ ElementExcluded
    \/ ElementRaises
    \/ MapFigure
    \/ MapCaption
    \/ MapText
    \/ PageEnd
    \/ InternalGrouping
    \/ ExternalOptimization
    \/ OptimizerUnavailable
    \/ OptimizationOff
    \/ Validation

(***************************************************************************)
(* The branch of a tab element (708-814) and the documents with tables.    *)
(* A tab element has its text, which is HTML, in the field html.           *)
(***************************************************************************)
\* the element is skipped: the branch is left by the continue named by exit
MapTableSkipped(exit) ==
    /\ AtMappedElement(TRUE)
    /\ elements[idx + 1].label = "tab"
    /\ TableExit(elements[idx + 1].html) = exit
    /\ idx' = idx + 1
    /\ UNCHANGED <<pc, recognition_results, fuse_figure_and_caption, optimize_for_rag,
                   table_row_block_size, pages_in, page_no, pno, elements, dims,
                   skip_next, oxcart_chunks, extraction_metadata, raised>>
    /\ UNCHANGED <<split_vars, group_vars, table_vars, normalize_vars, context_vars,
                   compare_vars>>

MapTableShort == MapTableSkipped("short")                \* 712
MapTableLarge == MapTableSkipped("large")                \* 716
MapTableMalformed == MapTableSkipped("malformed")        \* 721
MapTableUnconverted == MapTableSkipped("unconverted")    \* 740
MapTableOversized == MapTableSkipped("oversized")        \* 745
MapTableMeaningless == MapTableSkipped("meaningless")    \* 750

\* 752-814
MapTable ==
    /\ AtMappedElement(TRUE)
    /\ elements[idx + 1].label = "tab"
    /\ TableExit(elements[idx + 1].html) = "mapped"
    /\ oxcart_chunks' =
          oxcart_chunks
          \o TableChunks(elements[idx + 1], pno,
                         _normalize_box(elements[idx + 1].bbox, dims[1], dims[2]),
                         table_row_block_size)
    /\ idx' = idx + 1
    /\ UNCHANGED <<pc, recognition_results, fuse_figure_and_caption, optimize_for_rag,
                   table_row_block_size, pages_in, page_no, pno, elements, dims,
                   skip_next, extraction_metadata, raised>>
    /\ UNCHANGED <<split_vars, group_vars, table_vars, normalize_vars, context_vars,
                   compare_vars>>

MaxTabElements == 2

\* the kinds of elements of a document with tables: a tab element with one
\* of Tables as its text, or a short paragraph
TabKinds == {[label |-> "tab", table |-> t] : t \in DOMAIN Tables}
            \cup {[label |-> "para", table |-> "none"]}

TabDocument(kinds) ==
    [shape |-> "elements", pages |-> <<>>,
     elements |->
        [k \in 1..Len(kinds) |->
            [id |-> k,
             label |-> kinds[k].label,
             text |-> IF kinds[k].label = "tab" THEN <<>>
                      ELSE <<Word({k}, ShortLen, "x", "lower", 1)>>,
             html |-> IF kinds[k].label = "tab" THEN Tables[kinds[k].table] ELSE <<>>,
             bbox |-> KindBBox("stacked", k),
             reading_order |-> k]]]

\* the sizes table_row_block_size is given: None, 1, or more than 3
BlockSizes == {0, 1, 5}

TabInit ==
    /\ pc = "call"
    /\ \E kinds \in SeqsUpTo(TabKinds, MaxTabElements) \ {<<>>} :
          recognition_results = TabDocument(kinds)
    /\ fuse_figure_and_caption = TRUE
    /\ optimize_for_rag \in BOOLEAN
    /\ table_row_block_size \in BlockSizes
    /\ pages_in = <<>>
    /\ page_no = 0
    /\ pno = 0
    /\ elements = <<>>
    /\ dims = <<0, 0>>
    /\ idx = 0
    /\ skip_next = FALSE
    /\ oxcart_chunks = <<>>
    /\ extraction_metadata = NoMetadata
    /\ raised = "none"
    /\ c_pc = "idle"
    /\ dolphin_data = <<>>
    /\ ideal_data = <<>>
    /\ dolphin_structure = NoStructure
    /\ ideal_structure = NoStructure
    /\ ideal_chars = -1
    /\ comparison = NoComparison
    /\ similarity_factors = <<>>
    /\ cx_pc = "idle"
    /\ cx_chunks = <<>>
    /\ cx_sorted = <<>>
    /\ cx_grouped = <<>>
    /\ cx_i = 0
    /\ sp_pc = "idle"
    /\ text = <<>>
    /\ max_chars = 0
    /\ overlap_sents = 0
    /\ txt = <<>>
    /\ sents = <<>>
    /\ sp_i = 0
    /\ sp_chunks = <<>>
    /\ sp_runs = <<>>
    /\ g_pc = "idle"
    /\ g_run = 0
    /\ chunks = <<>>
    /\ optimized_chunks = <<>>
    /\ g_i = 0
    /\ g_first = <<>>
    /\ v_pc = "idle"
    /\ html = <<>>
    /\ v_result = FALSE
    /\ n_pc = "idle"
    /\ n_fn = "none"
    /\ n_bbox = <<>>
    /\ n_w = 0
    /\ n_h = 0
    /\ n_result = NoBox

\* the steps of the transform of a flat list of tab and para elements that
\* all have a box of four entries
TabNext ==
    \/ InputElementList
    \/ PageBegin
    \/ MapTableShort
    \/ MapTableLarge
    \/ MapTableMalformed
    \/ MapTableUnconverted
    \/ MapTableOversized
    \/ MapTableMeaningless
    \/ MapTable
    \/ MapText
    \/ PageEnd
    \/ InternalGrouping
    \/ ExternalOptimization
    \/ OptimizerUnavailable
    \/ OptimizationOff
    \/ Validation

(***************************************************************************)
(* The transform of paragraphs of some length: a flat list of at most      *)
(* MaxLongElements para elements, each a text of sentences that end in a   *)
(* full stop and are one space apart, with a box of four entries that has  *)
(* some height or none.                                                    *)
(***************************************************************************)
MaxLongElements == 2

\* the lengths of the sentences of a paragraph: one short sentence; one
\* sentence longer than para_max_chars; two sentences that make 1201 and
\* 1301 characters; three that make 2102
SentenceLengths ==
    {<<10>>, <<1600>>, <<600, 600>>, <<650, 650>>, <<700, 700, 700>>}

Sentences(id, lens) ==
    [k \in 1..Len(lens) |-> Word({id}, lens[k], "stop", "lower", IF k = 1 THEN 0 ELSE 1)]

LongDocument(texts, boxes) ==
    [shape |-> "elements", pages |-> <<>>,
     elements |->
        [k \in 1..Len(texts) |->
            [id |-> k,
             label |-> "para",
             text |-> Sentences(k, texts[k]),
             bbox |-> KindBBox(boxes, k),
             reading_order |-> k]]]

LongInit ==
    /\ pc = "call"
    /\ \E texts \in SeqsUpTo(SentenceLengths, MaxLongElements) \ {<<>>},
          boxes \in {"stacked", "flat"} :
          recognition_results = LongDocument(texts, boxes)
    /\ fuse_figure_and_caption = TRUE
    /\ optimize_for_rag = TRUE
    /\ table_row_block_size = 0
    /\ pages_in = <<>>
    /\ page_no = 0
    /\ pno = 0
    /\ elements = <<>>
    /\ dims = <<0, 0>>
    /\ idx = 0
    /\ skip_next = FALSE
    /\ oxcart_chunks = <<>>
    /\ extraction_metadata = NoMetadata
    /\ raised = "none"
    /\ c_pc = "idle"
    /\ dolphin_data = <<>>
    /\ ideal_data = <<>>
    /\ dolphin_structure = NoStructure
    /\ ideal_structure = NoStructure
    /\ ideal_chars = -1
    /\ comparison = NoComparison
    /\ similarity_factors = <<>>
    /\ cx_pc = "idle"
    /\ cx_chunks = <<>>
    /\ cx_sorted = <<>>
    /\ cx_grouped = <<>>
    /\ cx_i = 0
    /\ sp_pc = "idle"
    /\ text = <<>>
    /\ max_chars = 0
    /\ overlap_sents = 0
    /\ txt = <<>>
    /\ sents = <<>>
    /\ sp_i = 0
    /\ sp_chunks = <<>>
    /\ sp_runs = <<>>
    /\ g_pc = "idle"
    /\ g_run = 0
    /\ chunks = <<>>
    /\ optimized_chunks = <<>>
    /\ g_i = 0
    /\ g_first = <<>>
    /\ v_pc = "idle"
    /\ html = <<>>
    /\ v_result = FALSE
    /\ n_pc = "idle"
    /\ n_fn = "none"
    /\ n_bbox = <<>>
    /\ n_w = 0
    /\ n_h = 0
    /\ n_result = NoBox

\* the steps of the transform of a flat list of para elements with
\* optimize_for_rag on
LongNext ==
    \/ InputElementList
    \/ PageBegin
    \/ MapText
    \/ PageEnd
    \/ InternalGrouping
    \/ ExternalOptimization
    \/ OptimizerUnavailable
    \/ Validation

(***************************************************************************)
(* normalize_bbox_coordinates (src/chunk_optimizer.py 14-43).  It does not *)
(* round: the quotient is kept here to a whole number of 1/Unit.           *)
(***************************************************************************)
\* x / page_width for page_width # 0
FloatDiv(x, page_width) ==
    IF IsNaN(x) THEN NaN ELSE (x * Unit) \div page_width

\* 26-27
CoordinatesReturnsNone(bbox) == bbox = <<>> \/ Len(bbox) # 4

\* 33-36: the division raises ZeroDivisionError for 0 and TypeError for None
CoordinatesRaises(bbox, page_width, page_height) ==
    ~CoordinatesReturnsNone(bbox) /\ (page_width = 0 \/ page_height = 0)

normalize_bbox_coordinates(bbox, page_width, page_height) ==
    IF CoordinatesReturnsNone(bbox) THEN NoBox
    ELSE Box(Clamp(FloatDiv(bbox[1], page_width)), Clamp(FloatDiv(bbox[2], page_height)),
             Clamp(FloatDiv(bbox[3], page_width)), Clamp(FloatDiv(bbox[4], page_height)))

(***************************************************************************)
(* One call of a bbox normalizer: of _normalize_box, which the mapper      *)
(* calls (674), or of normalize_bbox_coordinates.                          *)
(***************************************************************************)
MaxBoxEntries == 5

\* pixel coordinates: left of or above the page, on it, beyond it, or nan
PixelValues == {-20, 50, 150, NaN}

NormalizeInit ==
    /\ c_pc = "idle"
    /\ dolphin_data = <<>>
    /\ ideal_data = <<>>
    /\ dolphin_structure = NoStructure
    /\ ideal_structure = NoStructure
    /\ ideal_chars = -1
    /\ comparison = NoComparison
    /\ similarity_factors = <<>>
    /\ n_pc = "call"
    /\ n_fn \in {"_normalize_box", "normalize_bbox_coordinates"}
    /\ n_bbox \in SeqsUpTo(PixelValues, MaxBoxEntries)
    /\ n_w \in {0, PageWidth}
    /\ n_h \in {0, PageHeight}
    /\ n_result = NoBox
    /\ sp_pc = "idle"
    /\ text = <<>>
    /\ max_chars = 0
    /\ overlap_sents = 0
    /\ txt = <<>>
    /\ sents = <<>>
    /\ sp_i = 0
    /\ sp_chunks = <<>>
    /\ sp_runs = <<>>
    /\ g_pc = "idle"
    /\ g_run = 0
    /\ chunks = <<>>
    /\ optimized_chunks = <<>>
    /\ g_i = 0
    /\ g_first = <<>>
    /\ v_pc = "idle"
    /\ html = <<>>
    /\ v_result = FALSE
    /\ pc = "idle"
    /\ recognition_results = Unrecognized
    /\ fuse_figure_and_caption = TRUE
    /\ optimize_for_rag = TRUE
    /\ table_row_block_size = 0
    /\ pages_in = <<>>
    /\ page_no = 0
    /\ pno = 0
    /\ elements = <<>>
    /\ dims = <<0, 0>>
    /\ idx = 0
    /\ skip_next = FALSE
    /\ oxcart_chunks = <<>>
    /\ extraction_metadata = NoMetadata
    /\ raised = "none"
    /\ cx_pc = "idle"
    /\ cx_chunks = <<>>
    /\ cx_sorted = <<>>
    /\ cx_grouped = <<>>
    /\ cx_i = 0

\* _normalize_box 298-299
NormalizeBoxNone ==
    /\ n_pc = "call"
    /\ n_fn = "_normalize_box"
    /\ NormalizeBoxReturnsNone(n_bbox, n_w, n_h)
    /\ n_result' = _normalize_box(n_bbox, n_w, n_h)
    /\ n_pc' = "returned"
    /\ UNCHANGED <<n_fn, n_bbox, n_w, n_h>>
    /\ UNCHANGED <<split_vars, group_vars, table_vars, transform_vars, context_vars, compare_vars>>

\* _normalize_box 300: ValueError of the unpacking
NormalizeBoxUnpackRaises ==
    /\ n_pc = "call"
    /\ n_fn = "_normalize_box"
    /\ NormalizeBoxRaises(n_bbox, n_w, n_h)
    /\ n_pc' = "raised"
    /\ UNCHANGED <<n_fn, n_bbox, n_w, n_h, n_result>>
    /\ UNCHANGED <<split_vars, group_vars, table_vars, transform_vars, context_vars, compare_vars>>

\* _normalize_box 300-306
NormalizeBoxReturns ==
    /\ n_pc = "call"
    /\ n_fn = "_normalize_box"
    /\ ~NormalizeBoxReturnsNone(n_bbox, n_w, n_h)
    /\ ~NormalizeBoxRaises(n_bbox, n_w, n_h)
    /\ n_result' = _normalize_box(n_bbox, n_w, n_h)
    /\ n_pc' = "returned"
    /\ UNCHANGED <<n_fn, n_bbox, n_w, n_h>>
    /\ UNCHANGED <<split_vars, group_vars, table_vars, transform_vars, context_vars, compare_vars>>

\* normalize_bbox_coordinates 26-27
CoordinatesNone ==
    /\ n_pc = "call"
    /\ n_fn = "normalize_bbox_coordinates"
    /\ CoordinatesReturnsNone(n_bbox)
    /\ n_result' = normalize_bbox_coordinates(n_bbox, n_w, n_h)
    /\ n_pc' = "returned"
    /\ UNCHANGED <<n_fn, n_bbox, n_w, n_h>>
    /\ UNCHANGED <<split_vars, group_vars, table_vars, transform_vars, context_vars, compare_vars>>

\* normalize_bbox_coordinates 29-36: the division raises
CoordinatesDivisionRaises ==
    /\ n_pc = "call"
    /\ n_fn = "normalize_bbox_coordinates"
    /\ CoordinatesRaises(n_bbox, n_w, n_h)
    /\ n_pc' = "raised"
    /\ UNCHANGED <<n_fn, n_bbox, n_w, n_h, n_result>>
    /\ UNCHANGED <<split_vars, group_vars, table_vars, transform_vars, context_vars, compare_vars>>

\* normalize_bbox_coordinates 29-43
CoordinatesReturns ==
    /\ n_pc = "call"
    /\ n_fn = "normalize_bbox_coordinates"
    /\ ~CoordinatesReturnsNone(n_bbox)
    /\ ~CoordinatesRaises(n_bbox, n_w, n_h)
    /\ n_result' = normalize_bbox_coordinates(n_bbox, n_w, n_h)
    /\ n_pc' = "returned"
    /\ UNCHANGED <<n_fn, n_bbox, n_w, n_h>>
    /\ UNCHANGED <<split_vars, group_vars, table_vars, transform_vars, context_vars, compare_vars>>

NormalizeNext ==
    \/ NormalizeBoxNone
    \/ NormalizeBoxUnpackRaises
    \/ NormalizeBoxReturns
    \/ CoordinatesNone
    \/ CoordinatesDivisionRaises
    \/ CoordinatesReturns

(***************************************************************************)
(* One call of group_chunks_contextually (src/chunk_optimizer.py 163-197)  *)
(* on a list of chunks as the transform hands them on: texts of one word,  *)
(* reading orders in list order or against it.                             *)
(***************************************************************************)
MaxContextChunks == 2

ContextTypes == {"text", "figure"}
ContextTextLens == {400, 401}

\* a box on the first line of the page; one on the same line at the right
\* (vertical center 0.004 lower); one at the right whose center is 0.01
\* lower; one close below the first (center to center 0.036); no box
ContextBoxes ==
    {Box(100000, 0, 200000, 20000),
     Box(700000, 0, 900000, 28000),
     Box(700000, 10000, 900000, 30000),
     Box(120000, 30000, 220000, 50000),
     NoBox}

ContextChunkAt(shape, k, reversed) ==
    LET ro == IF reversed THEN Len(shape) - k + 1 ELSE k
    IN  WithBoxOf(Chunk(ChunkId(shape[k].page, ro, ro, 0), shape[k].type,
                        <<Word({k}, shape[k].len, "x", "lower", 0)>>,
                        shape[k].page, shape[k].box,
                        <<IF shape[k].type = "figure" THEN "fig" ELSE "para">>, ro, ro),
                  k, -1)

ContextShapes ==
    SeqsUpTo([type : ContextTypes, len : ContextTextLens, page : 1..2, box : ContextBoxes],
             MaxContextChunks)

ContextInit ==
    /\ c_pc = "idle"
    /\ dolphin_data = <<>>
    /\ ideal_data = <<>>
    /\ dolphin_structure = NoStructure
    /\ ideal_structure = NoStructure
    /\ ideal_chars = -1
    /\ comparison = NoComparison
    /\ similarity_factors = <<>>
    /\ cx_pc = "call"
    /\ \E shape \in ContextShapes, reversed \in BOOLEAN :
          cx_chunks = [k \in 1..Len(shape) |-> ContextChunkAt(shape, k, reversed)]
    /\ cx_sorted = <<>>
    /\ cx_grouped = <<>>
    /\ cx_i = 0
    /\ sp_pc = "idle"
    /\ text = <<>>
    /\ max_chars = 0
    /\ overlap_sents = 0
    /\ txt = <<>>
    /\ sents = <<>>
    /\ sp_i = 0
    /\ sp_chunks = <<>>
    /\ sp_runs = <<>>
    /\ g_pc = "idle"
    /\ g_run = 0
    /\ chunks = <<>>
    /\ optimized_chunks = <<>>
    /\ g_i = 0
    /\ g_first = <<>>
    /\ v_pc = "idle"
    /\ html = <<>>
    /\ v_result = FALSE
    /\ pc = "idle"
    /\ recognition_results = Unrecognized
    /\ fuse_figure_and_caption = TRUE
    /\ optimize_for_rag = TRUE
    /\ table_row_block_size = 0
    /\ pages_in = <<>>
    /\ page_no = 0
    /\ pno = 0
    /\ elements = <<>>
    /\ dims = <<0, 0>>
    /\ idx = 0
    /\ skip_next = FALSE
    /\ oxcart_chunks = <<>>
    /\ extraction_metadata = NoMetadata
    /\ raised = "none"
    /\ n_pc = "idle"
    /\ n_fn = "none"
    /\ n_bbox = <<>>
    /\ n_w = 0
    /\ n_h = 0
    /\ n_result = NoBox

\* 167-168: an empty list is returned as it is
ContextEmpty ==
    /\ cx_pc = "call"
    /\ cx_chunks = <<>>
    /\ cx_grouped' = cx_chunks
    /\ cx_pc' = "returned"
    /\ UNCHANGED <<cx_chunks, cx_sorted, cx_i>>
    /\ UNCHANGED <<split_vars, group_vars, table_vars, transform_vars, normalize_vars,
                   compare_vars>>

\* 171-177
ContextSort ==
    /\ cx_pc = "call"
    /\ cx_chunks # <<>>
    /\ cx_sorted' = SortedByPosition(cx_chunks)
    /\ cx_grouped' = <<>>
    /\ cx_i' = 0
    /\ cx_pc' = "loop"
    /\ UNCHANGED cx_chunks
    /\ UNCHANGED <<split_vars, group_vars, table_vars, transform_vars, normalize_vars,
                   compare_vars>>

\* 179-195: the chunk at i is not to be grouped with the one after it
ContextKeep ==
    /\ cx_pc = "loop"
    /\ cx_i < Len(cx_sorted)
    /\ LET m == MergeFollowing(cx_sorted, cx_sorted[cx_i + 1], cx_i + 1)
       IN  /\ m.j = cx_i + 1
           /\ cx_grouped' = Append(cx_grouped, m.chunk)
           /\ cx_i' = cx_i + 1
    /\ UNCHANGED <<cx_pc, cx_chunks, cx_sorted>>
    /\ UNCHANGED <<split_vars, group_vars, table_vars, transform_vars, normalize_vars,
                   compare_vars>>

\* 179-195: the chunk at i takes in the chunks after it, up to j
ContextMerge ==
    /\ cx_pc = "loop"
    /\ cx_i < Len(cx_sorted)
    /\ LET m == MergeFollowing(cx_sorted, cx_sorted[cx_i + 1], cx_i + 1)
       IN  /\ m.j > cx_i + 1
           /\ cx_grouped' = Append(cx_grouped, m.chunk)
           /\ cx_i' = m.j
    /\ UNCHANGED <<cx_pc, cx_chunks, cx_sorted>>
    /\ UNCHANGED <<split_vars, group_vars, table_vars, transform_vars, normalize_vars,
                   compare_vars>>

\* 197
ContextReturn ==
    /\ cx_pc = "loop"
    /\ cx_i >= Len(cx_sorted)
    /\ cx_pc' = "returned"
    /\ UNCHANGED <<cx_chunks, cx_sorted, cx_grouped, cx_i>>
    /\ UNCHANGED <<split_vars, group_vars, table_vars, transform_vars, normalize_vars,
                   compare_vars>>

ContextNext ==
    ContextEmpty \/ ContextSort \/ ContextKeep \/ ContextMerge \/ ContextReturn

(***************************************************************************)
(* The comparison of two files (src/analyze_json_comparison.py).  A file   *)
(* is [has_chunks, chunks, has_pages, pages]: a chunk is the set of its    *)
(* keys and whether grounding[0].box is there and not empty; a page is the *)
(* number of its elements.  Ratios are whole numbers of hundredths.        *)
(***************************************************************************)
\* round(a / b, 2) for b > 0, in hundredths (a tie goes to the even side)
RoundedRatio(a, b) ==
    LET q == (100 * a) \div b
        twice == 2 * ((100 * a) % b)
    IN  IF twice > b \/ (twice = b /\ q % 2 = 1) THEN q + 1 ELSE q

FirstChunks == 5

\* analyze_json_structure (29-63): total_elements is set only for a file
\* with pages
analyze_json_structure(data) ==
    [total_chunks |-> IF data.has_chunks THEN Len(data.chunks) ELSE 0,
     chunk_fields |-> IF data.has_chunks
                      THEN UNION {data.chunks[k].fields :
                                     k \in 1..Min(FirstChunks, Len(data.chunks))}
                      ELSE {},
     has_total_elements |-> data.has_pages,
     total_elements |-> IF data.has_pages THEN SumOf(data.pages) ELSE 0]

\* analyze_chunk_characteristics (111-161): bbox_analysis.chunks_with_bbox
chunks_with_bbox(data) ==
    Cardinality({k \in 1..Len(data.chunks) : data.chunks[k].box})

\* compare_structures (164-194)
compare_structures(dolphin_analysis, ideal_analysis) ==
    LET dolphin_chunks == IF dolphin_analysis.has_total_elements
                          THEN dolphin_analysis.total_elements ELSE 0
        ideal_chunks == ideal_analysis.total_chunks
        dolphin_fields == dolphin_analysis.chunk_fields
        ideal_fields == ideal_analysis.chunk_fields
    IN  [ratio |-> IF dolphin_chunks > 0
                   THEN RoundedRatio(ideal_chunks, dolphin_chunks) ELSE 0,
         field_coverage |-> IF ideal_fields # {}
                            THEN RoundedRatio(Cardinality(dolphin_fields \cap ideal_fields),
                                              Cardinality(ideal_fields))
                            ELSE 0]

MaxCompareChunks == 2
MaxComparePages == 2

CompareChunks ==
    {[fields |-> {"chunk_id", "text", "grounding"}, box |-> TRUE],
     [fields |-> {"chunk_id", "text", "grounding"}, box |-> FALSE],
     [fields |-> {"chunk_id", "text"}, box |-> FALSE]}

CompareFiles ==
    {[has_chunks |-> TRUE, chunks |-> cs, has_pages |-> FALSE, pages |-> <<>>] :
        cs \in SeqsUpTo(CompareChunks, MaxCompareChunks)}
    \cup {[has_chunks |-> TRUE, chunks |-> cs, has_pages |-> TRUE, pages |-> ps] :
            cs \in SeqsUpTo(CompareChunks, MaxCompareChunks),
            ps \in SeqsUpTo(1..2, MaxComparePages)}
    \cup {[has_chunks |-> FALSE, chunks |-> <<>>, has_pages |-> TRUE, pages |-> ps] :
            ps \in SeqsUpTo(1..2, MaxComparePages)}

CompareInit ==
    /\ c_pc = "loaded"
    /\ dolphin_data \in CompareFiles
    /\ ideal_data \in CompareFiles
    /\ dolphin_structure = NoStructure
    /\ ideal_structure = NoStructure
    /\ ideal_chars = -1
    /\ comparison = NoComparison
    /\ similarity_factors = <<>>
    /\ cx_pc = "idle"
    /\ cx_chunks = <<>>
    /\ cx_sorted = <<>>
    /\ cx_grouped = <<>>
    /\ cx_i = 0
    /\ sp_pc = "idle"
    /\ text = <<>>
    /\ max_chars = 0
    /\ overlap_sents = 0
    /\ txt = <<>>
    /\ sents = <<>>
    /\ sp_i = 0
    /\ sp_chunks = <<>>
    /\ sp_runs = <<>>
    /\ g_pc = "idle"
    /\ g_run = 0
    /\ chunks = <<>>
    /\ optimized_chunks = <<>>
    /\ g_i = 0
    /\ g_first = <<>>
    /\ v_pc = "idle"
    /\ html = <<>>
    /\ v_result = FALSE
    /\ pc = "idle"
    /\ recognition_results = Unrecognized
    /\ fuse_figure_and_caption = TRUE
    /\ optimize_for_rag = TRUE
    /\ table_row_block_size = 0
    /\ pages_in = <<>>
    /\ page_no = 0
    /\ pno = 0
    /\ elements = <<>>
    /\ dims = <<0, 0>>
    /\ idx = 0
    /\ skip_next = FALSE
    /\ oxcart_chunks = <<>>
    /\ extraction_metadata = NoMetadata
    /\ raised = "none"
    /\ n_pc = "idle"
    /\ n_fn = "none"
    /\ n_bbox = <<>>
    /\ n_w = 0
    /\ n_h = 0
    /\ n_result = NoBox

\* main, 231-232
CompareAnalyze ==
    /\ c_pc = "loaded"
    /\ dolphin_structure' = analyze_json_structure(dolphin_data)
    /\ ideal_structure' = analyze_json_structure(ideal_data)
    /\ c_pc' = "analyzed"
    /\ UNCHANGED <<dolphin_data, ideal_data, ideal_chars, comparison, similarity_factors>>
    /\ UNCHANGED <<split_vars, group_vars, table_vars, transform_vars, normalize_vars,
                   context_vars>>

\* main, 264-266: the ideal file has chunks
CompareCharacteristics ==
    /\ c_pc = "analyzed"
    /\ ideal_data.has_chunks
    /\ ideal_chars' = chunks_with_bbox(ideal_data)
    /\ c_pc' = "characterized"
    /\ UNCHANGED <<dolphin_data, ideal_data, dolphin_structure, ideal_structure,
                   comparison, similarity_factors>>
    /\ UNCHANGED <<split_vars, group_vars, table_vars, transform_vars, normalize_vars,
                   context_vars>>

\* main, 264-267: without chunks analyze_chunk_characteristics returns
\* {"error": ...} (113-114), and ideal_chars['text_length_stats'] raises
CompareCharacteristicsRaises ==
    /\ c_pc = "analyzed"
    /\ ~ideal_data.has_chunks
    /\ c_pc' = "raised"
    /\ UNCHANGED <<dolphin_data, ideal_data, dolphin_structure, ideal_structure,
                   ideal_chars, comparison, similarity_factors>>
    /\ UNCHANGED <<split_vars, group_vars, table_vars, transform_vars, normalize_vars,
                   context_vars>>

\* main, 277
CompareStructures ==
    /\ c_pc = "characterized"
    /\ comparison' = compare_structures(dolphin_structure, ideal_structure)
    /\ c_pc' = "compared"
    /\ UNCHANGED <<dolphin_data, ideal_data, dolphin_structure, ideal_structure,
                   ideal_chars, similarity_factors>>
    /\ UNCHANGED <<split_vars, group_vars, table_vars, transform_vars, normalize_vars,
                   context_vars>>

\* main, 294-300: overall_score is the mean of the three factors
CompareScore ==
    /\ c_pc = "compared"
    /\ similarity_factors' = <<comparison.field_coverage,
                               Min(100, comparison.ratio),
                               IF ideal_chars > 0 THEN 100 ELSE 0>>
    /\ c_pc' = "scored"
    /\ UNCHANGED <<dolphin_data, ideal_data, dolphin_structure, ideal_structure,
                   ideal_chars, comparison>>
    /\ UNCHANGED <<split_vars, group_vars, table_vars, transform_vars, normalize_vars,
                   context_vars>>

CompareNext ==
    \/ CompareAnalyze
    \/ CompareCharacteristics
    \/ CompareCharacteristicsRaises
    \/ CompareStructures
    \/ CompareScore

(***************************************************************************)
(* Initial states.  Each routine is checked on its own: its call is about  *)
(* to start on one of its inputs, and the variables of the other routines  *)
(* stand idle.                                                             *)
(***************************************************************************)
\* _split_long_paragraph(text, max_chars, overlap_sents) is called (479)
SplitInit ==
    /\ c_pc = "idle"
    /\ dolphin_data = <<>>
    /\ ideal_data = <<>>
    /\ dolphin_structure = NoStructure
    /\ ideal_structure = NoStructure
    /\ ideal_chars = -1
    /\ comparison = NoComparison
    /\ similarity_factors = <<>>
    /\ sp_pc = "call"
    /\ text \in SplitTexts
    /\ max_chars \in 1..MaxChars
    /\ overlap_sents \in 0..MaxOverlap
    /\ txt = <<>>
    /\ sents = <<>>
    /\ sp_i = 0
    /\ sp_chunks = <<>>
    /\ sp_runs = <<>>
    /\ g_pc = "idle"
    /\ g_run = 0
    /\ chunks = <<>>
    /\ optimized_chunks = <<>>
    /\ g_i = 0
    /\ g_first = <<>>
    /\ v_pc = "idle"
    /\ html = <<>>
    /\ v_result = FALSE
    /\ pc = "idle"
    /\ recognition_results = Unrecognized
    /\ fuse_figure_and_caption = TRUE
    /\ optimize_for_rag = TRUE
    /\ table_row_block_size = 0
    /\ pages_in = <<>>
    /\ page_no = 0
    /\ pno = 0
    /\ elements = <<>>
    /\ dims = <<0, 0>>
    /\ idx = 0
    /\ skip_next = FALSE
    /\ oxcart_chunks = <<>>
    /\ extraction_metadata = NoMetadata
    /\ raised = "none"
    /\ n_pc = "idle"
    /\ n_fn = "none"
    /\ n_bbox = <<>>
    /\ n_w = 0
    /\ n_h = 0
    /\ n_result = NoBox
    /\ cx_pc = "idle"
    /\ cx_chunks = <<>>
    /\ cx_sorted = <<>>
    /\ cx_grouped = <<>>
    /\ cx_i = 0

\* _group_small_chunks(chunks, min_chunk_size, max_combined_size) is called
\* (309-313) on chunks as the mapper builds them
GroupInit ==
    /\ c_pc = "idle"
    /\ dolphin_data = <<>>
    /\ ideal_data = <<>>
    /\ dolphin_structure = NoStructure
    /\ ideal_structure = NoStructure
    /\ ideal_chars = -1
    /\ comparison = NoComparison
    /\ similarity_factors = <<>>
    /\ g_pc = "call"
    /\ g_run = 1
    /\ \E shape \in GroupShapes, boxed \in BOOLEAN :
         \E break \in (IF Len(shape) = 0 THEN {0} ELSE 1..Len(shape)) :
            chunks = [k \in 1..Len(shape) |-> GroupChunkAt(shape, k, break, boxed)]
    /\ optimized_chunks = <<>>
    /\ g_i = 0
    /\ g_first = <<>>
    /\ sp_pc = "idle"
    /\ text = <<>>
    /\ max_chars = 0
    /\ overlap_sents = 0
    /\ txt = <<>>
    /\ sents = <<>>
    /\ sp_i = 0
    /\ sp_chunks = <<>>
    /\ sp_runs = <<>>
    /\ v_pc = "idle"
    /\ html = <<>>
    /\ v_result = FALSE
    /\ pc = "idle"
    /\ recognition_results = Unrecognized
    /\ fuse_figure_and_caption = TRUE
    /\ optimize_for_rag = TRUE
    /\ table_row_block_size = 0
    /\ pages_in = <<>>
    /\ page_no = 0
    /\ pno = 0
    /\ elements = <<>>
    /\ dims = <<0, 0>>
    /\ idx = 0
    /\ skip_next = FALSE
    /\ oxcart_chunks = <<>>
    /\ extraction_metadata = NoMetadata
    /\ raised = "none"
    /\ n_pc = "idle"
    /\ n_fn = "none"
    /\ n_bbox = <<>>
    /\ n_w = 0
    /\ n_h = 0
    /\ n_result = NoBox
    /\ cx_pc = "idle"
    /\ cx_chunks = <<>>
    /\ cx_sorted = <<>>
    /\ cx_grouped = <<>>
    /\ cx_i = 0

\* _validate_html_table(html) is called (15)
TableInit ==
    /\ c_pc = "idle"
    /\ dolphin_data = <<>>
    /\ ideal_data = <<>>
    /\ dolphin_structure = NoStructure
    /\ ideal_structure = NoStructure
    /\ ideal_chars = -1
    /\ comparison = NoComparison
    /\ similarity_factors = <<>>
    /\ v_pc = "call"
    /\ \E body \in SeqsUpTo(HtmlSegments, MaxSegments), tagged \in BOOLEAN :
          html = IF tagged
                 THEN <<[pat |-> <<"<table>">>, n |-> 1]>> \o body
                          \o <<[pat |-> <<"</table>">>, n |-> 1]>>
                 ELSE body
    /\ v_result = FALSE
    /\ sp_pc = "idle"
    /\ text = <<>>
    /\ max_chars = 0
    /\ overlap_sents = 0
    /\ txt = <<>>
    /\ sents = <<>>
    /\ sp_i = 0
    /\ sp_chunks = <<>>
    /\ sp_runs = <<>>
    /\ g_pc = "idle"
    /\ g_run = 0
    /\ chunks = <<>>
    /\ optimized_chunks = <<>>
    /\ g_i = 0
    /\ g_first = <<>>
    /\ pc = "idle"
    /\ recognition_results = Unrecognized
    /\ fuse_figure_and_caption = TRUE
    /\ optimize_for_rag = TRUE
    /\ table_row_block_size = 0
    /\ pages_in = <<>>
    /\ page_no = 0
    /\ pno = 0
    /\ elements = <<>>
    /\ dims = <<0, 0>>
    /\ idx = 0
    /\ skip_next = FALSE
    /\ oxcart_chunks = <<>>
    /\ extraction_metadata = NoMetadata
    /\ raised = "none"
    /\ n_pc = "idle"
    /\ n_fn = "none"
    /\ n_bbox = <<>>
    /\ n_w = 0
    /\ n_h = 0
    /\ n_result = NoBox
    /\ cx_pc = "idle"
    /\ cx_chunks = <<>>
    /\ cx_sorted = <<>>
    /\ cx_grouped = <<>>
    /\ cx_i = 0

\* transform_dolphin_to_oxcart_preserving_labels is called (579-591)
TransformInit ==
    /\ c_pc = "idle"
    /\ dolphin_data = <<>>
    /\ ideal_data = <<>>
    /\ dolphin_structure = NoStructure
    /\ ideal_structure = NoStructure
    /\ ideal_chars = -1
    /\ comparison = NoComparison
    /\ similarity_factors = <<>>
    /\ pc = "call"
    /\ \/ \E kinds \in SeqsUpTo(ElementKinds, MaxElements), cfg \in Configurations :
            /\ recognition_results = Document(kinds, cfg)
            /\ fuse_figure_and_caption = cfg.fuse
       \/ /\ recognition_results = Unrecognized
          /\ fuse_figure_and_caption = TRUE
    /\ optimize_for_rag \in BOOLEAN
    /\ table_row_block_size = 0
    /\ pages_in = <<>>
    /\ page_no = 0
    /\ pno = 0
    /\ elements = <<>>
    /\ dims = <<0, 0>>
    /\ idx = 0
    /\ skip_next = FALSE
    /\ oxcart_chunks = <<>>
    /\ extraction_metadata = NoMetadata
    /\ raised = "none"
    /\ sp_pc = "idle"
    /\ text = <<>>
    /\ max_chars = 0
    /\ overlap_sents = 0
    /\ txt = <<>>
    /\ sents = <<>>
    /\ sp_i = 0
    /\ sp_chunks = <<>>
    /\ sp_runs = <<>>
    /\ g_pc = "idle"
    /\ g_run = 0
    /\ chunks = <<>>
    /\ optimized_chunks = <<>>
    /\ g_i = 0
    /\ g_first = <<>>
    /\ v_pc = "idle"
    /\ html = <<>>
    /\ v_result = FALSE
    /\ n_pc = "idle"
    /\ n_fn = "none"
    /\ n_bbox = <<>>
    /\ n_w = 0
    /\ n_h = 0
    /\ n_result = NoBox
    /\ cx_pc = "idle"
    /\ cx_chunks = <<>>
    /\ cx_sorted = <<>>
    /\ cx_grouped = <<>>
    /\ cx_i = 0

(***************************************************************************)
(* Specifications: one per routine that is checked on its own.             *)
(***************************************************************************)
SpecSplit == SplitInit /\ [][SplitNext]_vars

SpecGroup == GroupInit /\ [][GroupNext]_vars

SpecTable == TableInit /\ [][TableNext]_vars

Spec == TransformInit /\ [][TransformNext]_vars

SpecNormalize == NormalizeInit /\ [][NormalizeNext]_vars

SpecContext == ContextInit /\ [][ContextNext]_vars

SpecCompare == CompareInit /\ [][CompareNext]_vars

SpecTab == TabInit /\ [][TabNext]_vars

SpecLong == LongInit /\ [][LongNext]_vars

(***************************************************************************)
(* Properties of _split_long_paragraph, checked under SpecSplit.           *)
(***************************************************************************)
SplitReturned == sp_pc = "returned"

\* C7 as stated: every text whose whitespace-normalized length exceeds
\* max_chars is returned in at least 2 parts.
C7_AtLeastTwoParts ==
    (SplitReturned /\ TextLen(NormalizeWhitespace(strip(text))) > max_chars)
        => Len(sp_chunks) >= 2

\* C7 as amended: every text whose whitespace-normalized length exceeds
\* max_chars and that holds at least two sentences is returned in at least
\* 2 parts (a text that is one sentence is returned as one part).
C7_AtLeastTwoPartsOfSentences ==
    (/\ SplitReturned
     /\ TextLen(NormalizeWhitespace(strip(text))) > max_chars
     /\ Len(SplitSentences(NormalizeWhitespace(strip(text)))) >= 2)
        => Len(sp_chunks) >= 2

C7_Witness ==
    /\ SplitReturned
    /\ TextLen(NormalizeWhitespace(strip(text))) > max_chars
    /\ Len(SplitSentences(NormalizeWhitespace(strip(text)))) >= 2
    /\ TextLen(text) > TextLen(NormalizeWhitespace(strip(text)))
    /\ Len(sp_chunks) >= 2

\* C8: every returned part is at most max_chars long, except a part that is
\* exactly one sentence (a sentence that does not fit the limit is forced
\* into a part of its own).
C8_PartsWithinLimit ==
    SplitReturned =>
        \A k \in 1..Len(sp_chunks) :
            TextLen(sp_chunks[k]) > max_chars
                => Len(SplitSentences(sp_chunks[k])) = 1

C8_Witness ==
    /\ SplitReturned
    /\ \E k \in 1..Len(sp_chunks) : TextLen(sp_chunks[k]) > max_chars
    /\ \E k \in 1..Len(sp_chunks) :
          /\ Len(SplitSentences(sp_chunks[k])) >= 2
          /\ TextLen(sp_chunks[k]) = max_chars - 1

\* C9: the parts cover the text: every sentence of the normalized input is a
\* sentence of some part, every part is a run of consecutive sentences, and
\* successive parts start at strictly increasing sentence indexes, the next
\* one no later than where the previous one ended.
C9_PartsCoverText ==
    (SplitReturned /\ NormalizeWhitespace(strip(text)) # <<>>) =>
        LET all == SplitSentences(NormalizeWhitespace(strip(text)))
        IN  /\ \A s \in 1..Len(all) :
                  \E k \in 1..Len(sp_chunks) :
                      \E m \in 1..Len(SplitSentences(sp_chunks[k])) :
                          SplitSentences(sp_chunks[k])[m] = all[s]
            /\ Len(sp_runs) = Len(sp_chunks)
            /\ \A k \in 1..Len(sp_chunks) :
                  /\ 0 <= sp_runs[k].i
                  /\ sp_runs[k].i < sp_runs[k].j
                  /\ sp_runs[k].j <= Len(all)
                  /\ sp_chunks[k] = JoinSpace(SubSeq(all, sp_runs[k].i + 1, sp_runs[k].j))
            /\ \A k \in 1..(Len(sp_chunks) - 1) :
                  /\ sp_runs[k + 1].i > sp_runs[k].i
                  /\ sp_runs[k + 1].i <= sp_runs[k].j

C9_Witness ==
    /\ SplitReturned
    /\ Len(sp_chunks) >= 3
    /\ \E k \in 1..(Len(sp_chunks) - 1) : sp_runs[k + 1].i < sp_runs[k].j
    /\ \E k \in 1..(Len(sp_chunks) - 1) : sp_runs[k + 1].i = sp_runs[k].j

(***************************************************************************)
(* Properties of _group_small_chunks, checked under SpecGroup.             *)
(***************************************************************************)
GroupReturnedTwice == g_pc = "returned" /\ g_run = 2

\* C1: the internal grouping pass run on its own output returns that output
\* unchanged: no further merge, and no chunk's text, box,
\* reading_order_range or combined_chunks differs.
C1_GroupIdempotent == GroupReturnedTwice => optimized_chunks = g_first

(***************************************************************************)
(* Properties of _validate_html_table, checked under SpecTable.            *)
(***************************************************************************)
\* C10: an HTML string with more than 200 <tr> elements is rejected,
\* whatever else it holds.
C10_ManyRowsRejected ==
    (v_pc = "returned" /\ TrElements(html) > MaxTableRows) => v_result = FALSE

(***************************************************************************)
(* The transform.                                                          *)
(***************************************************************************)
Returned == pc = "returned"

\* the elements of the input, of all pages
RECURSIVE ElementsOfPages(_)
ElementsOfPages(pages) ==
    IF pages = <<>> THEN <<>> ELSE pages[1].elements \o ElementsOfPages(Tail(pages))

InputElements == recognition_results.elements \o ElementsOfPages(recognition_results.pages)

BoxWithinPage(bbox) ==
    /\ 0 <= bbox.l /\ bbox.l <= bbox.r /\ bbox.r <= Unit
    /\ 0 <= bbox.t /\ bbox.t <= bbox.b /\ bbox.b <= Unit

\* C2: in the document the transform returns, every chunk with a non-null
\* box has 0 <= l <= r <= 1 and 0 <= t <= b <= 1, whatever the pixel boxes
\* and the page dimensions were and whether optimize_for_rag was on or off.
C2_BoxesWithinPage ==
    Returned =>
        \A k \in 1..Len(oxcart_chunks) :
            ~oxcart_chunks[k].box.null => BoxWithinPage(oxcart_chunks[k].box)

\* C3: at every stage of the transform (after the mapping of an element,
\* after the internal grouping, after the external grouping) every chunk has
\* reading_order_range[0] <= reading_order_range[1].
C3_RangeOrdered ==
    \A k \in 1..Len(oxcart_chunks) :
        oxcart_chunks[k].reading_order_range[1] <= oxcart_chunks[k].reading_order_range[2]

\* C4: the chunk_id values of a returned document are pairwise distinct.
C4_ChunkIdsDistinct ==
    Returned =>
        \A j, k \in 1..Len(oxcart_chunks) :
            j # k => oxcart_chunks[j].chunk_id # oxcart_chunks[k].chunk_id

\* the input elements some character of the text t comes from
TextSources(t) == UNION {t[k].src : k \in 1..Len(t)}

ExcludedIds ==
    {InputElements[k].id : k \in {m \in 1..Len(InputElements) :
                                    InputElements[m].label \in exclude_labels}}

\* C5: with the default exclude_labels no chunk, at any stage, has text that
\* comes from an element labelled header or foot or carries such a label,
\* wherever the element stands on its page.
C5_ExcludedNeverContribute ==
    \A k \in 1..Len(oxcart_chunks) :
        /\ TextSources(oxcart_chunks[k].text) \cap ExcludedIds = {}
        /\ \A m \in 1..Len(oxcart_chunks[k].labels) :
              oxcart_chunks[k].labels[m] \notin exclude_labels

\* a figure was mapped and the element right after it on the page, which
\* was then passed, is labelled header or foot
C5_Witness ==
    /\ pc = "element"
    /\ idx >= 2
    /\ elements[idx - 1].label = "fig"
    /\ elements[idx].label \in exclude_labels
    /\ fuse_figure_and_caption
    /\ oxcart_chunks # <<>>
    /\ oxcart_chunks[Len(oxcart_chunks)].labels[1] = "fig"

RecognizedShape ==
    \/ recognition_results.shape = "pages"
    \/ recognition_results.shape = "page_list" /\ recognition_results.pages # <<>>
    \/ recognition_results.shape = "elements" /\ recognition_results.elements # <<>>

\* C6: for an input of a recognized shape the transform raises nothing.
C6_NothingRaised == RecognizedShape => raised = "none"

\* the input is a flat list of one para element with a 4-entry bbox and a
\* text that is not empty and no longer than para_max_chars, the options are
\* the defaults, and the page dimensions are known
OneShortParagraph ==
    /\ recognition_results.shape = "elements"
    /\ Len(recognition_results.elements) = 1
    /\ recognition_results.elements[1].label = "para"
    /\ Len(recognition_results.elements[1].bbox) = 4
    /\ ElementText(recognition_results.elements[1]) # <<>>
    /\ TextLen(ElementText(recognition_results.elements[1])) <= para_max_chars
    /\ fuse_figure_and_caption
    /\ optimize_for_rag
    /\ dims = <<PageWidth, PageHeight>>

\* C11: for a single para element with a bbox, known page dimensions and a
\* text no longer than para_max_chars, the transform with default options
\* returns exactly one chunk: of type text, with the text of the element,
\* the normalized bbox as its box and reading_order_range [ro, ro].
C11_OneParagraphOneTextChunk ==
    (Returned /\ OneShortParagraph) =>
        LET el == recognition_results.elements[1]
        IN  /\ Len(oxcart_chunks) = 1
            /\ oxcart_chunks[1].chunk_type = "text"
            /\ oxcart_chunks[1].text = ElementText(el)
            /\ oxcart_chunks[1].box = _normalize_box(el.bbox, PageWidth, PageHeight)
            /\ oxcart_chunks[1].reading_order_range = <<el.reading_order, el.reading_order>>

\* the chunk types of the specification
ChunkTypes ==
    {"title", "section", "subsection", "text", "table", "table_row", "figure",
     "caption", "marginalia"}

\* C16: in every returned document, with optimize_for_rag on or off and the
\* default exclude_labels, the chunk_type of each chunk is one of title,
\* section, subsection, text, table, table_row, figure, caption, marginalia.
C16_ChunkTypesKnown ==
    Returned => \A k \in 1..Len(oxcart_chunks) : oxcart_chunks[k].chunk_type \in ChunkTypes

(***************************************************************************)
(* Properties of the bbox normalizers, checked under SpecNormalize.        *)
(***************************************************************************)
NormalizerLeft == n_pc \in {"returned", "raised"}

\* C19: a normalizer returns null and raises nothing whenever the bbox is
\* falsy or has not exactly 4 entries, or a page dimension is null or zero;
\* for _normalize_box and for normalize_bbox_coordinates.
C19_MalformedGivesNull ==
    (NormalizerLeft /\ (n_bbox = <<>> \/ Len(n_bbox) # 4 \/ n_w = 0 \/ n_h = 0))
        => (n_pc = "returned" /\ n_result = NoBox)

\* C20: for a 4-entry bbox and non-zero page dimensions every coordinate of
\* the box that _normalize_box returns lies in [0, 1], also for a pixel box
\* that lies partly outside the page or has negative coordinates (stated
\* here for finite pixel coordinates).
C20_NormalizedWithinUnit ==
    (/\ n_pc = "returned"
     /\ n_fn = "_normalize_box"
     /\ Len(n_bbox) = 4
     /\ \A k \in 1..4 : ~IsNaN(n_bbox[k])
     /\ n_w # 0
     /\ n_h # 0)
        => /\ ~n_result.null
           /\ 0 <= n_result.l /\ n_result.l <= Unit
           /\ 0 <= n_result.t /\ n_result.t <= Unit
           /\ 0 <= n_result.r /\ n_result.r <= Unit
           /\ 0 <= n_result.b /\ n_result.b <= Unit

\* the page number of the page that holds the input element id
PageNumberOf(id) ==
    IF \E k \in 1..Len(recognition_results.elements) :
          recognition_results.elements[k].id = id
    THEN 1
    ELSE recognition_results.pages[
             CHOOSE p \in 1..Len(recognition_results.pages) :
                \E k \in 1..Len(recognition_results.pages[p].elements) :
                   recognition_results.pages[p].elements[k].id = id].page_number

\* C17: no merge crosses a page: at every stage of the transform, after the
\* internal pass and after the external pass too, the text of every chunk
\* comes only from elements of the page the chunk is grounded on.
C17_NoMergeAcrossPages ==
    \A k \in 1..Len(oxcart_chunks) :
        \A id \in TextSources(oxcart_chunks[k].text) :
            PageNumberOf(id) = oxcart_chunks[k].page

\* a document of two pages was returned with the optimization on: a chunk
\* merged from two elements is followed by a short chunk of the same type
\* that stands on the other page
C17_Witness ==
    /\ Returned
    /\ optimize_for_rag
    /\ recognition_results.shape = "pages"
    /\ \E k \in 1..(Len(oxcart_chunks) - 1) :
          /\ Cardinality(TextSources(oxcart_chunks[k].text)) >= 2
          /\ oxcart_chunks[k].chunk_type = oxcart_chunks[k + 1].chunk_type
          /\ oxcart_chunks[k].page # oxcart_chunks[k + 1].page
          /\ TextLen(oxcart_chunks[k].text) + TextLen(oxcart_chunks[k + 1].text) < min_chunk_size

\* the ids of the input elements labelled tab, fig or cap
UnmergeableIds ==
    {InputElements[k].id : k \in {m \in 1..Len(InputElements) :
                                    InputElements[m].label \in {"tab", "fig", "cap"}}}

\* C18: neither grouping pass merges a table, figure or caption chunk with
\* another chunk: in the document the transform returns, with the
\* optimization on or off, a chunk with text of a tab, fig or cap element
\* has no text of any other element.
C18_TableFigureCaptionUnmerged ==
    Returned =>
        \A k \in 1..Len(oxcart_chunks) :
            TextSources(oxcart_chunks[k].text) \cap UnmergeableIds # {}
                => Cardinality(TextSources(oxcart_chunks[k].text)) = 1

(***************************************************************************)
(* Properties of group_chunks_contextually, checked under SpecContext.     *)
(***************************************************************************)
\* the call was given two chunks of type text on one page, both with a box,
\* whose texts together are at most max_combined_length long
TwoTextChunksOfOnePage ==
    /\ Len(cx_chunks) = 2
    /\ cx_chunks[1].chunk_type = "text"
    /\ cx_chunks[2].chunk_type = "text"
    /\ cx_chunks[1].page = cx_chunks[2].page
    /\ ~cx_chunks[1].box.null
    /\ ~cx_chunks[2].box.null
    /\ TextLen(cx_chunks[1].text) + TextLen(cx_chunks[2].text) <= max_combined_length

\* twice the distance of the vertical centers of two boxes
CentersApart(bbox1, bbox2) ==
    LET d == (bbox1.t + bbox1.b) - (bbox2.t + bbox2.b)
    IN  IF d < 0 THEN 0 - d ELSE d

\* one chunk is returned, with the coordinate-wise envelope of the two boxes
OneChunkWithEnvelope ==
    /\ Len(cx_grouped) = 1
    /\ cx_grouped[1].box.l = Min(cx_chunks[1].box.l, cx_chunks[2].box.l)
    /\ cx_grouped[1].box.t = Min(cx_chunks[1].box.t, cx_chunks[2].box.t)
    /\ cx_grouped[1].box.r = Max(cx_chunks[1].box.r, cx_chunks[2].box.r)
    /\ cx_grouped[1].box.b = Max(cx_chunks[1].box.b, cx_chunks[2].box.b)

C14_IdenticalCorporaScoreOne ==
    (/\ c_pc = "scored"
     /\ dolphin_data = ideal_data
     /\ ideal_data.has_chunks
     /\ \E k \in 1..Len(ideal_data.chunks) : ideal_data.chunks[k].box)
        => similarity_factors[1] + similarity_factors[2] + similarity_factors[3] = 300


(***************************************************************************)
(* Properties of the tab branch of the transform.                          *)
(***************************************************************************)
\* while the elements are mapped: the elements of the page passed so far
MappedSoFar == IF pc \in {"element", "page"} THEN idx ELSE 0

\* the length of the rendering chosen for the conversion conv of the text
\* h: the Markdown, else the TSV, else the simplified HTML
SelectedRendering(conv, h) ==
    CASE conv.markdown > 0 -> conv.markdown
      [] conv.tsv > 0 -> conv.tsv
      [] OTHER -> _simplify_html_table(h)

\* the element is to give no chunk: its text is shorter than 30 or longer
\* than 50,000 characters or is not a valid table, or the rendering is
\* longer than 3000 or shorter than 50 characters, or there is no header
TableRejected(h) ==
    \/ HtmlLen(h) < 30
    \/ HtmlLen(h) > 50000
    \/ ~_validate_html_table(h)
    \/ \E conv \in {_table_to_md_tsv_and_sentences(h)} :
          \/ SelectedRendering(conv, h) > 3000
          \/ SelectedRendering(conv, h) < 50
          \/ Len(conv.headers) = 0

\* the chunks of type ct whose text comes from the element id
ChunksOf(id, ct) ==
    {k \in 1..Len(oxcart_chunks) :
        /\ oxcart_chunks[k].chunk_type = ct
        /\ id \in TextSources(oxcart_chunks[k].text)}

\* C12: once a tab element has been passed by the mapping, it has given no
\* table and no table_row chunk if its text fails _validate_html_table, is
\* shorter than 30 or longer than 50,000 characters, if the selected
\* rendering is longer than 3000 or shorter than 50 characters, or if the
\* conversion has no headers; otherwise it has given exactly one table
\* chunk.
C12_TableChunkOrNothing ==
    \A k \in 1..MappedSoFar :
        elements[k].label = "tab" =>
            IF TableRejected(elements[k].html)
            THEN ChunksOf(elements[k].id, "table") = {}
                 /\ ChunksOf(elements[k].id, "table_row") = {}
            ELSE Cardinality(ChunksOf(elements[k].id, "table")) = 1

\* the mapping has passed two tab elements: the first was rejected for its
\* rendering of fewer than 50 characters, the second gave a table chunk and
\* table_row chunks
C12_Witness ==
    /\ pc = "element"
    /\ idx = 2
    /\ elements[1].label = "tab"
    /\ elements[2].label = "tab"
    /\ _validate_html_table(elements[1].html)
    /\ SelectedRendering(_table_to_md_tsv_and_sentences(elements[1].html),
                         elements[1].html) \in 1..49
    /\ ChunksOf(elements[1].id, "table") = {}
    /\ ~TableRejected(elements[2].html)
    /\ Cardinality(ChunksOf(elements[2].id, "table")) = 1
    /\ ChunksOf(elements[2].id, "table_row") # {}

\* the chunks of type table of the document
TableChunkIds ==
    {oxcart_chunks[k].chunk_id :
        k \in {m \in 1..Len(oxcart_chunks) : oxcart_chunks[m].chunk_type = "table"}}

\* C15: in every returned document each chunk of type table_row carries, as
\* parent_table_chunk_id, the chunk_id of a chunk of type table of the same
\* document, whether the external optimization ran or not.
C15_RowsHaveTheirTable ==
    Returned =>
        \A k \in 1..Len(oxcart_chunks) :
            oxcart_chunks[k].chunk_type = "table_row" =>
                oxcart_chunks[k].parent_table_chunk_id \in TableChunkIds

\* a document is returned that holds a table_row chunk, and the first
\* element of the input is a paragraph
C15_Witness ==
    /\ Returned
    /\ raised = "none"
    /\ recognition_results.elements[1].label = "para"
    /\ \E k \in 1..Len(oxcart_chunks) :
          /\ oxcart_chunks[k].chunk_type = "table_row"
          /\ oxcart_chunks[k].parent_table_chunk_id # NoParent

(***************************************************************************)
(* Properties of the returned document.                                    *)
(***************************************************************************)
\* C21: every document the transform returns for a recognized input carries
\* extraction_metadata with validation_applied true and chunk_count equal
\* to the number of its chunks, also when it has no chunk at all.
C21_MetadataComplete ==
    (Returned /\ raised = "none" /\ RecognizedShape) =>
        /\ extraction_metadata.validation_applied
        /\ extraction_metadata.chunk_count = Len(oxcart_chunks)

\* the labels of the input elements some character of the text t comes from
SourceLabels(t) ==
    {InputElements[k].label :
        k \in {m \in 1..Len(InputElements) : InputElements[m].id \in TextSources(t)}}

\* C22: the labels of every chunk of the returned document hold the label
\* of every element its text comes from, also when a grouping pass merged
\* chunks of elements with different labels.
C22_LabelsOfAllSources ==
    Returned =>
        \A k \in 1..Len(oxcart_chunks) :
            SourceLabels(oxcart_chunks[k].text)
                \subseteq {oxcart_chunks[k].labels[m] : m \in 1..Len(oxcart_chunks[k].labels)}

(***************************************************************************)
(* Properties of the internal pass, _group_small_chunks, in its first run. *)
(***************************************************************************)
\* in the first run the words of chunk k of the list carry k as their src:
\* the chunks of the list the output chunk g was built from
RunOf(g) == {k \in 1..Len(chunks) : k \in TextSources(g.text)}

FirstOfRun(g) == CHOOSE k \in RunOf(g) : \A m \in RunOf(g) : k <= m

\* all that the pass asks of the growing chunk g and the chunk n after it
\* but the reading-order gap: sizes (345-347, 354), type and page (408-421)
MergeableButForGap(g, n) ==
    /\ TextLen(g.text) < max_combined_size
    /\ TextLen(n.text) < min_chunk_size * 2
    /\ TextLen(g.text) + 1 + TextLen(n.text) <= max_combined_size
    /\ g.chunk_type = n.chunk_type
    /\ g.chunk_type \notin {"table", "figure", "caption", "table_row"}
    /\ g.page = n.page

\* C23: in the internal pass a chunk is absorbed only if the gap between the
\* start of its range and the end of the growing chunk is at most 5, and
\* the chunk after a growing chunk is absorbed whenever that gap is at most
\* 5 and the type, page and size conditions hold.
C23_GapFromGrowingEnd ==
    (g_pc = "loop" /\ g_run = 1 /\ optimized_chunks # <<>>) =>
        LET g == optimized_chunks[Len(optimized_chunks)]
        IN  /\ \A m \in RunOf(g) \ {FirstOfRun(g)} :
                  chunks[m].reading_order_range[1] - chunks[m - 1].reading_order_range[2]
                      <= MaxReadingOrderGap
            /\ (/\ g_i < Len(chunks)
                /\ TextLen(chunks[FirstOfRun(g)].text) < min_chunk_size
                /\ MergeableButForGap(g, chunks[g_i + 1]))
               => chunks[g_i + 1].reading_order_range[1] - g.reading_order_range[2]
                     > MaxReadingOrderGap

\* the input elements some character of the text t comes from
SourceElements(t) ==
    {k \in 1..Len(InputElements) : InputElements[k].id \in TextSources(t)}

\* C24: right after the internal pass the reading_order_range of every
\* chunk covers the reading order of every element the chunk was built
\* from: a fused figure and caption chunk keeps [fig.reading_order,
\* cap.reading_order], a merged chunk spans from its first original to its
\* last.
C24_RangeCoversOriginals ==
    pc = "optimize" =>
        \A k \in 1..Len(oxcart_chunks) :
            \A m \in SourceElements(oxcart_chunks[k].text) :
                /\ oxcart_chunks[k].reading_order_range[1] <= InputElements[m].reading_order
                /\ InputElements[m].reading_order <= oxcart_chunks[k].reading_order_range[2]

\* the chunks of type figure made from the element id (box_obj.el is the
\* element whose box the chunk was given)
FigureChunksOf(id) ==
    {k \in 1..Len(oxcart_chunks) :
        /\ oxcart_chunks[k].chunk_type = "figure"
        /\ oxcart_chunks[k].box_obj.el = id}

\* C25: once a fig element that is not excluded has been passed by the
\* mapping, exactly one figure chunk has been made from it, with
\* fuse_figure_and_caption on or off and whether or not it has text.
C25_OneFigureChunkPerFigure ==
    \A k \in 1..MappedSoFar :
        (elements[k].label = "fig" /\ "fig" \notin exclude_labels) =>
            Cardinality(FigureChunksOf(elements[k].id)) = 1

\* C26: when the external pass has run, with its split of the chunks that
\* are too long, every chunk of the returned document has a text of at most
\* max_chunk_length characters, or a text that is a single sentence.
C26_WithinMaxChunkLength ==
    (Returned /\ extraction_metadata.optimization_applied) =>
        \A k \in 1..Len(oxcart_chunks) :
            \/ TextLen(oxcart_chunks[k].text) <= max_chunk_length
            \/ Len(RawSentences(oxcart_chunks[k].text)) = 1

\* the box of the element the chunk c was made from, normalized
OriginalBox(c) ==
    LET el == InputElements[CHOOSE m \in 1..Len(InputElements) :
                              InputElements[m].id = c.box_obj.el]
    IN  _normalize_box(el.bbox, dims[1], dims[2])

table_format(conv) ==
    CASE conv.markdown > 0 -> "markdown"
      [] conv.tsv > 0 -> "tsv"
      [] OTHER -> "simplified_html"

\* the tab element with text h passes the tests on its text and its
\* conversion has neither Markdown nor TSV
ConvertedToNothing(h) ==
    /\ HtmlLen(h) >= 30
    /\ HtmlLen(h) <= 50000
    /\ _validate_html_table(h)
    /\ \E conv \in {_table_to_md_tsv_and_sentences(h)} :
          conv.markdown <= 0 /\ conv.tsv <= 0

\* the simplified HTML of the text h is not empty and has from 50 to 3000
\* characters
SimplifiedUsable(h) == _simplify_html_table(h) \in 50..3000

SimplifiedNeverUsable ==
    \A k \in 1..MappedSoFar :
        (elements[k].label = "tab" /\ ConvertedToNothing(elements[k].html)) =>
            ~SimplifiedUsable(elements[k].html)

\* " ".join of the texts of the chunks a..b of the list cs
RECURSIVE SpaceJoin(_, _, _)
SpaceJoin(cs, a, b) ==
    IF a = b THEN cs[a].text
    ELSE SpaceJoin(cs, a, b - 1) \o [cs[b].text EXCEPT ![1].gap = 1]

\* chunk c2 can be merged into chunk c1: one type, not a table, figure,
\* caption or table row, one page, at most 5 between the end of the range
\* of c1 and the start of the range of c2
Mergeable(c1, c2) ==
    /\ c1.chunk_type = c2.chunk_type
    /\ c1.chunk_type \notin {"table", "figure", "caption", "table_row"}
    /\ c1.page = c2.page
    /\ c2.reading_order_range[1] - c1.reading_order_range[2] <= 5

\* the runs of the output chunks are the intervals lo..hi of the list, one
\* after the other from 1 to the end of the list
RunsPartition ==
    /\ \A m \in 1..Len(optimized_chunks) :
          /\ RunOf(optimized_chunks[m]) # {}
          /\ \A k \in 1..Len(chunks) :
                (FirstOfRun(optimized_chunks[m]) <= k
                 /\ \E h \in RunOf(optimized_chunks[m]) : k <= h)
                => k \in RunOf(optimized_chunks[m])
          /\ FirstOfRun(optimized_chunks[m]) =
                (IF m = 1 THEN 1
                 ELSE FirstOfRun(optimized_chunks[m - 1])
                      + Cardinality(RunOf(optimized_chunks[m - 1])))
    /\ UNION {RunOf(optimized_chunks[m]) : m \in 1..Len(optimized_chunks)}
          = 1..Len(chunks)

\* C29: when the internal pass returns, its output chunks are built from
\* consecutive runs of the input list that follow each other in the order
\* of the list and cover it, the text of each output chunk is the texts of
\* its run joined by single spaces, the output is not longer than the
\* input, and it is shorter if some chunk shorter than min_chunk_size is
\* directly followed by a mergeable chunk shorter than 2 * min_chunk_size.
C29_RunsInOrder ==
    (g_pc = "returned" /\ g_run = 1) =>
        /\ RunsPartition
        /\ \A m \in 1..Len(optimized_chunks) :
              optimized_chunks[m].text =
                  SpaceJoin(chunks, FirstOfRun(optimized_chunks[m]),
                            FirstOfRun(optimized_chunks[m])
                            + Cardinality(RunOf(optimized_chunks[m])) - 1)
        /\ Len(optimized_chunks) <= Len(chunks)
        /\ (\E k \in 1..(Len(chunks) - 1) :
               /\ TextLen(chunks[k].text) < min_chunk_size
               /\ TextLen(chunks[k + 1].text) < 2 * min_chunk_size
               /\ Mergeable(chunks[k], chunks[k + 1]))
           => Len(optimized_chunks) < Len(chunks)

\* the pass has returned two chunks for a list of three: the first is the
\* first two chunks of the list merged, the third chunk stayed alone
C29_Witness ==
    /\ g_pc = "returned"
    /\ g_run = 1
    /\ Len(chunks) = 3
    /\ Len(optimized_chunks) = 2
    /\ RunOf(optimized_chunks[1]) = {1, 2}
    /\ RunOf(optimized_chunks[2]) = {3}
    /\ TextLen(chunks[1].text) < min_chunk_size
    /\ Mergeable(chunks[1], chunks[2])

====
